---- MODULE Spec2Model ----
(***************************************************************************)
(* Adventure World: the discrete-time core of the theme-park simulation.   *)
(*                                                                         *)
(*   rides         park.rides, a list of Ride objects (a.py)               *)
(*   patrons       every Patron object constructed so far (patron.py);     *)
(*                 a patron is referred to by its index in this heap       *)
(*   park_patrons  park.patrons, the active list (park.py)                 *)
(*   park_exits    len(park.exits), the number of exit points (park.py)    *)
(*   terrain_objects  park.terrain_objects, walls included (park.py)        *)
(*   sim           the Simulation object's fields (simulation.py)          *)
(*   loop          the position of Simulation.step inside one tick         *)
(*   obs           observation of the calls made (history, reads nothing   *)
(*                 back into the program state)                            *)
(*                                                                         *)
(* Positions are continuous in the source and are not part of the state:   *)
(* every test on a distance (closer than 15 to the target ride, closer     *)
(* than 2 to the nearest exit) is an input of the step that makes it.      *)
(* random.random() is drawn from Rolls, in thousandths.                    *)
(***************************************************************************)
EXTENDS Integers, Sequences, FiniteSets, TLC

VARIABLES rides, patrons, park_patrons, park_exits, terrain_objects, sim, loop, obs

vars == <<rides, patrons, park_patrons, park_exits, terrain_objects, sim, loop, obs>>

---------------------------------------------------------------------------
(* Bounds of the model *)

MaxRides == 2
MaxDirectRides == 1
MaxCapacity == 2
RideDuration == 2
MaxPatrons == 2
MaxTicks == 13
MaxDayTicks == 17
MaxJoins == 2
MaxPlaced == 2
MaxParkTicks == 2
MaxRunTicks == 2
MaxTerrain == 2
MaxQueuePatrons == 5
MaxQueueJoins == 6
MaxExitMoves == 2
MaxJoinPatrons == 4
MaxServiceTicks == 20
MaxSeasonTicks == 30
MaxSeasonPatrons == 1
MaxSpeedTicks == 12

(* Program constants *)

DEFAULT_LOADING_TIME == 3
DEFAULT_UNLOAD_TIME == 2
DEFAULT_PATRON_IMMOBILE_TIME == 5
UnloadImmobileMin == 2
UnloadImmobileMax == 5
OverlapBuffer == 5
ParkExits == 3
DEFAULT_PARK_WIDTH == 280
DEFAULT_PARK_HEIGHT == 200
WallThickness == 5
PositionMargin == 12
PositionBuffer == 2

None == 0

IDLE == "idle"
LOADING == "loading"
RUNNING == "running"
UNLOADING == "unloading"
RideState == {IDLE, LOADING, RUNNING, UNLOADING}

ROAMING == "roaming"
QUEUING == "queuing"
RIDING == "riding"
EXITING == "exiting"
PatronState == {ROAMING, QUEUING, RIDING, EXITING}

Personalities == {"balanced", "casual", "thrill_seeker"}

(* random.random(), in thousandths: one value in each interval cut out by
   the thresholds the program compares it with (50, 80, 120, 286 ... 900) *)
Rolls == {0, 60, 100, 400, 850, 999}

(* random.randint(lo, hi), sampled at its two ends *)
RandInt(lo, hi) == {lo, hi}

(* random.randint(lo, hi), sampled at its low end, where the exit check and
   the patience check of a patron act soonest *)
RandIntLow(lo, hi) == {lo}

---------------------------------------------------------------------------
(* Sequence helpers *)

Range(s) == {s[k] : k \in DOMAIN s}

Occurrences(s, x) == Cardinality({k \in DOMAIN s : s[k] = x})

FirstIndex(s, x) == CHOOSE k \in DOMAIN s : s[k] = x /\ \A m \in 1..(k - 1) : s[m] # x

(* list.remove(x) / deque.remove(x): drops the first occurrence *)
RemoveFirst(s, x) ==
    LET k == FirstIndex(s, x)
    IN  SubSeq(s, 1, k - 1) \o SubSeq(s, k + 1, Len(s))

(* the objects a call works on; exit_moved tells whether the call wrote the
   position of a patron in Patron.move_to_exit, moved_to what kind of position
   Patron.intelligent_roam wrote: none ("nowhere"), one that
   park.is_valid_position accepted ("valid") or one that it refused *)
Heap ==
    [rides |-> rides, patrons |-> patrons, park_patrons |-> park_patrons,
     exits |-> park_exits, terrain_objects |-> terrain_objects,
     exit_moved |-> FALSE, moved_to |-> "nowhere"]

---------------------------------------------------------------------------
(* Ride (a.py) *)

(* Ride.__init__; the name is left out *)
NewRide(x, y, width, height, capacity, duration) ==
    [x |-> x, y |-> y, width |-> width, height |-> height,
     capacity |-> capacity, duration |-> duration,
     state |-> IDLE, queue |-> <<>>, riders |-> <<>>, timer |-> 0,
     loading_time |-> DEFAULT_LOADING_TIME, unload_time |-> DEFAULT_UNLOAD_TIME,
     total_riders_served |-> 0, total_cycles |-> 0, popularity_score |-> 0]

(* the subclasses of Ride: the width and height their __init__ passes on *)
RideKinds ==
    {[width |-> 12, height |-> 10],     \* PirateShip
     [width |-> 14, height |-> 14],     \* FerrisWheel
     [width |-> 16, height |-> 16]}     \* SpiderRide

(* Ride.get_bounding_box(): (x_min, y_min, x_max, y_max), every entry doubled
   so that width / 2 and height / 2 stay integers *)
get_bounding_box(ride) ==
    <<2 * ride.x - ride.width, 2 * ride.y - ride.height,
      2 * ride.x + ride.width, 2 * ride.y + ride.height>>

(* overlaps_with without the buffer zone *)
overlaps_with_NoBuffer(self, other_ride) ==
    LET box1 == get_bounding_box(self)
        box2 == get_bounding_box(other_ride)
    IN  ~(\/ box1[3] < box2[1] \/ box1[1] > box2[3]
          \/ box1[4] < box2[2] \/ box1[2] > box2[4])

(* Ride.overlaps_with(other_ride), on the doubled boxes *)
overlaps_with(self, other_ride) ==
    LET box1 == get_bounding_box(self)
        box2 == get_bounding_box(other_ride)
        buffer == 2 * OverlapBuffer
    IN  ~(\/ box1[3] + buffer < box2[1] \/ box1[1] > box2[3] + buffer
          \/ box1[4] + buffer < box2[2] \/ box1[2] > box2[4] + buffer)

(* add_ride that appends the ride before it looks for an overlap *)
add_ride_AppendFirst(h, ride) ==
    [park |-> [h EXCEPT !.rides = Append(@, ride)],
     returned |-> ~(\E k \in DOMAIN h.rides : overlaps_with(ride, h.rides[k]))]

(* add_ride without the loop over the existing rides *)
add_ride_NoCheck(h, ride) ==
    [park |-> [h EXCEPT !.rides = Append(@, ride)], returned |-> TRUE]

(* Park.add_ride(ride): the park afterwards and the value returned *)
add_ride(h, ride) ==
    IF \E k \in DOMAIN h.rides : overlaps_with(ride, h.rides[k])
    THEN [park |-> h, returned |-> FALSE]
    ELSE [park |-> [h EXCEPT !.rides = Append(@, ride)], returned |-> TRUE]

(* add_to_queue that forgets patron.state = QUEUING *)
add_to_queue_KeepState(h, r, p) ==
    [h EXCEPT !.rides[r].queue = Append(@, p),
              !.rides[r].popularity_score = @ + 1,
              !.patrons[p].target_ride = r]

(* add_to_queue with queue.appendleft(patron) *)
add_to_queue_AtFront(h, r, p) ==
    [h EXCEPT !.rides[r].queue = <<p>> \o @,
              !.rides[r].popularity_score = @ + 1,
              !.patrons[p].state = QUEUING,
              !.patrons[p].target_ride = r]

(* Ride.add_to_queue(patron) *)
add_to_queue(h, r, p) ==
    [h EXCEPT !.rides[r].queue = Append(@, p),
              !.rides[r].popularity_score = @ + 1,
              !.patrons[p].state = QUEUING,
              !.patrons[p].target_ride = r]

(* load_patrons that boards the whole queue: while len(queue) > 0 *)
RECURSIVE load_patrons_NoLimit(_, _)
load_patrons_NoLimit(h, r) ==
    IF Len(h.rides[r].queue) > 0
    THEN LET patron == Head(h.rides[r].queue)
         IN  load_patrons_NoLimit([h EXCEPT !.rides[r].queue = Tail(@),
                                            !.rides[r].riders = Append(@, patron),
                                            !.patrons[patron].state = RIDING], r)
    ELSE h

(* load_patrons with len(riders) <= capacity *)
RECURSIVE load_patrons_OffByOne(_, _)
load_patrons_OffByOne(h, r) ==
    IF Len(h.rides[r].riders) <= h.rides[r].capacity /\ Len(h.rides[r].queue) > 0
    THEN LET patron == Head(h.rides[r].queue)
         IN  load_patrons_OffByOne([h EXCEPT !.rides[r].queue = Tail(@),
                                             !.rides[r].riders = Append(@, patron),
                                             !.patrons[patron].state = RIDING], r)
    ELSE h

(* load_patrons with queue.pop() for queue.popleft() *)
RECURSIVE load_patrons_FromBack(_, _)
load_patrons_FromBack(h, r) ==
    IF Len(h.rides[r].riders) < h.rides[r].capacity /\ Len(h.rides[r].queue) > 0
    THEN LET patron == h.rides[r].queue[Len(h.rides[r].queue)]
         IN  load_patrons_FromBack(
                 [h EXCEPT !.rides[r].queue = SubSeq(@, 1, Len(@) - 1),
                           !.rides[r].riders = Append(@, patron),
                           !.patrons[patron].state = RIDING], r)
    ELSE h

(* load_patrons that boards the patrons without marking them Riding *)
RECURSIVE load_patrons_KeepState(_, _)
load_patrons_KeepState(h, r) ==
    IF Len(h.rides[r].riders) < h.rides[r].capacity /\ Len(h.rides[r].queue) > 0
    THEN LET patron == Head(h.rides[r].queue)
         IN  load_patrons_KeepState([h EXCEPT !.rides[r].queue = Tail(@),
                                              !.rides[r].riders = Append(@, patron)], r)
    ELSE h

(* Ride.load_patrons(): while len(riders) < capacity and len(queue) > 0 *)
RECURSIVE load_patrons(_, _)
load_patrons(h, r) ==
    IF Len(h.rides[r].riders) < h.rides[r].capacity /\ Len(h.rides[r].queue) > 0
    THEN LET patron == Head(h.rides[r].queue)
         IN  load_patrons([h EXCEPT !.rides[r].queue = Tail(@),
                                    !.rides[r].riders = Append(@, patron),
                                    !.patrons[patron].state = RIDING], r)
    ELSE h

(* mark_ride_completed that counts a ride only the first time *)
mark_ride_completed_Once(h, p, r) ==
    [h EXCEPT !.patrons[p].visited_rides = @ \cup {r},
              !.patrons[p].rides_completed =
                  IF r \in h.patrons[p].visited_rides THEN @ ELSE @ + 1,
              !.patrons[p].current_target = None]

(* mark_ride_completed that forgets visited_rides.add(ride) *)
mark_ride_completed_NoVisit(h, p, r) ==
    [h EXCEPT !.patrons[p].rides_completed = @ + 1,
              !.patrons[p].current_target = None]

(* Patron.mark_ride_completed(ride) *)
mark_ride_completed(h, p, r) ==
    [h EXCEPT !.patrons[p].visited_rides = @ \cup {r},
              !.patrons[p].rides_completed = @ + 1,
              !.patrons[p].current_target = None]

(* the body of the for loop of Ride.unload_patrons, for the k-th rider;
   immobile[k] is that rider's random.randint(2, 5) *)
RECURSIVE UnloadFrom(_, _, _, _)
UnloadFrom(h, r, k, immobile) ==
    IF k > Len(h.rides[r].riders)
    THEN h
    ELSE LET patron == h.rides[r].riders[k]
             h1 == [h EXCEPT !.patrons[patron].state = ROAMING]
             h2 == mark_ride_completed(h1, patron, r)
             h3 == [h2 EXCEPT !.patrons[patron].immobile_timer = immobile[k]]
         IN  UnloadFrom(h3, r, k + 1, immobile)

(* unload_patrons that forgets self.riders.clear() *)
unload_patrons_NoClear(h, r, immobile) ==
    LET h1 == [h EXCEPT !.rides[r].total_riders_served = @ + Len(h.rides[r].riders)]
    IN  UnloadFrom(h1, r, 1, immobile)

(* unload_patrons that counts a full ride whoever is aboard *)
unload_patrons_CountCapacity(h, r, immobile) ==
    LET h1 == [h EXCEPT !.rides[r].total_riders_served = @ + h.rides[r].capacity]
        h2 == UnloadFrom(h1, r, 1, immobile)
    IN  [h2 EXCEPT !.rides[r].riders = <<>>]

(* Ride.unload_patrons() *)
unload_patrons(h, r, immobile) ==
    LET h1 == [h EXCEPT !.rides[r].total_riders_served = @ + Len(h.rides[r].riders)]
        h2 == UnloadFrom(h1, r, 1, immobile)
    IN  [h2 EXCEPT !.rides[r].riders = <<>>]

(* the draws random.randint(2, 5) of one call of unload_patrons *)
UnloadDraws(h, r) ==
    [1..Len(h.rides[r].riders) -> RandInt(UnloadImmobileMin, UnloadImmobileMax)]

(* the IDLE branch that boards patrons in the call that enters Loading *)
StepIdle_Boarding(h, r) ==
    IF Len(h.rides[r].queue) > 0
    THEN LET h1 == load_patrons(h, r)
         IN  [h1 EXCEPT !.rides[r].state = LOADING,
                        !.rides[r].timer = h.rides[r].loading_time]
    ELSE h

(* an IDLE branch that starts loading only while no other ride is loading *)
StepIdle_OneAtATime(h, r) ==
    IF /\ Len(h.rides[r].queue) > 0
       /\ \A k \in 1..Len(h.rides) : h.rides[k].state # LOADING
    THEN [h EXCEPT !.rides[r].state = LOADING,
                   !.rides[r].timer = h.rides[r].loading_time]
    ELSE h

(* Ride.step_change(), state IDLE *)
StepIdle(h, r) ==
    IF Len(h.rides[r].queue) > 0
    THEN [h EXCEPT !.rides[r].state = LOADING,
                   !.rides[r].timer = h.rides[r].loading_time]
    ELSE h

(* the LOADING branch that also leaves Loading as soon as the ride is full *)
StepLoading_EarlyExit(h, r) ==
    LET h1 == load_patrons(h, r)
        t  == h.rides[r].timer - 1
    IN  IF t <= 0 \/ Len(h1.rides[r].riders) = h.rides[r].capacity
        THEN IF Len(h1.rides[r].riders) > 0
             THEN [h1 EXCEPT !.rides[r].state = RUNNING,
                             !.rides[r].timer = h.rides[r].duration]
             ELSE [h1 EXCEPT !.rides[r].state = IDLE,
                             !.rides[r].timer = t]
        ELSE [h1 EXCEPT !.rides[r].timer = t]

(* the LOADING branch that starts the ride whether or not anybody boarded *)
StepLoading_AlwaysRun(h, r) ==
    LET h1 == load_patrons(h, r)
        t  == h.rides[r].timer - 1
    IN  IF t <= 0
        THEN [h1 EXCEPT !.rides[r].state = RUNNING,
                        !.rides[r].timer = h.rides[r].duration]
        ELSE [h1 EXCEPT !.rides[r].timer = t]

(* Ride.step_change(), state LOADING *)
StepLoading(h, r) ==
    LET h1 == load_patrons(h, r)
        t  == h.rides[r].timer - 1
    IN  IF t <= 0
        THEN IF Len(h1.rides[r].riders) > 0
             THEN [h1 EXCEPT !.rides[r].state = RUNNING,
                             !.rides[r].timer = h.rides[r].duration]
             ELSE [h1 EXCEPT !.rides[r].state = IDLE,
                             !.rides[r].timer = t]
        ELSE [h1 EXCEPT !.rides[r].timer = t]

(* the RUNNING branch with timer < 0 for timer <= 0 *)
StepRunning_OneMore(h, r) ==
    LET t == h.rides[r].timer - 1
    IN  IF t < 0
        THEN [h EXCEPT !.rides[r].state = UNLOADING,
                       !.rides[r].timer = h.rides[r].unload_time,
                       !.rides[r].total_cycles = @ + 1]
        ELSE [h EXCEPT !.rides[r].timer = t]

(* the RUNNING branch that keeps boarding while the ride runs *)
StepRunning_Boarding(h, r) ==
    LET h1 == load_patrons(h, r)
        t  == h.rides[r].timer - 1
    IN  IF t <= 0
        THEN [h1 EXCEPT !.rides[r].state = UNLOADING,
                        !.rides[r].timer = h.rides[r].unload_time,
                        !.rides[r].total_cycles = @ + 1]
        ELSE [h1 EXCEPT !.rides[r].timer = t]

(* Ride.step_change(), state RUNNING; update_movement() animates only *)
StepRunning(h, r) ==
    LET t == h.rides[r].timer - 1
    IN  IF t <= 0
        THEN [h EXCEPT !.rides[r].state = UNLOADING,
                       !.rides[r].timer = h.rides[r].unload_time,
                       !.rides[r].total_cycles = @ + 1]
        ELSE [h EXCEPT !.rides[r].timer = t]

(* the UNLOADING branch with timer < 0 for timer <= 0 *)
StepUnloading_OneMore(h, r, immobile) ==
    LET t == h.rides[r].timer - 1
    IN  IF t < 0
        THEN LET h1 == unload_patrons(h, r, immobile)
             IN  [h1 EXCEPT !.rides[r].state = IDLE,
                            !.rides[r].timer = t]
        ELSE [h EXCEPT !.rides[r].timer = t]

(* Ride.step_change(), state UNLOADING *)
StepUnloading(h, r, immobile) ==
    LET t == h.rides[r].timer - 1
    IN  IF t <= 0
        THEN LET h1 == unload_patrons(h, r, immobile)
             IN  [h1 EXCEPT !.rides[r].state = IDLE,
                            !.rides[r].timer = t]
        ELSE [h EXCEPT !.rides[r].timer = t]

(* Ride.step_change(): one dispatch on the current state *)
Ride_step_change(h, r, immobile) ==
    CASE h.rides[r].state = IDLE -> StepIdle(h, r)
      [] h.rides[r].state = LOADING -> StepLoading(h, r)
      [] h.rides[r].state = RUNNING -> StepRunning(h, r)
      [] h.rides[r].state = UNLOADING -> StepUnloading(h, r, immobile)

(* every result of Ride.step_change() over the draws it makes *)
RideStepOutcomes(h, r) ==
    {Ride_step_change(h, r, immobile) : immobile \in UnloadDraws(h, r)}

---------------------------------------------------------------------------
(* Park (park.py): the ground. The park is built with the default width and
   height. Centres and boxes of terrain objects are doubled, as the boxes of
   rides are; the coordinates of a point asked about are not. *)

(* TerrainObject.__init__, the centre given doubled *)
NewTerrainObject(x2, y2, width, height, object_type) ==
    [x2 |-> x2, y2 |-> y2, width |-> width, height |-> height, type |-> object_type]

(* TerrainObject.get_bounding_box(), doubled *)
Terrain_get_bounding_box(obj) ==
    <<obj.x2 - obj.width, obj.y2 - obj.height,
      obj.x2 + obj.width, obj.y2 + obj.height>>

(* TerrainObject.contains_point(x, y) *)
contains_point(obj, x, y) ==
    LET box == Terrain_get_bounding_box(obj)
    IN  box[1] <= 2 * x /\ 2 * x <= box[3] /\ box[2] <= 2 * y /\ 2 * y <= box[4]

(* Park._setup_park(): the four walls *)
setup_park ==
    <<NewTerrainObject(DEFAULT_PARK_WIDTH, WallThickness,
                       DEFAULT_PARK_WIDTH, WallThickness, "boundary"),
      NewTerrainObject(DEFAULT_PARK_WIDTH, 2 * DEFAULT_PARK_HEIGHT - WallThickness,
                       DEFAULT_PARK_WIDTH, WallThickness, "boundary"),
      NewTerrainObject(WallThickness, DEFAULT_PARK_HEIGHT,
                       WallThickness, DEFAULT_PARK_HEIGHT, "boundary"),
      NewTerrainObject(2 * DEFAULT_PARK_WIDTH - WallThickness, DEFAULT_PARK_HEIGHT,
                       WallThickness, DEFAULT_PARK_HEIGHT, "boundary")>>

(* Park.add_terrain_object(terrain_obj) *)
add_terrain_object(h, terrain_obj) ==
    [h EXCEPT !.terrain_objects = Append(@, terrain_obj)]

(* is_valid_position that lets no terrain object through, pathways
   included *)
is_valid_position_AnyTerrain(h, x, y) ==
    IF \/ x < PositionMargin \/ x > DEFAULT_PARK_WIDTH - PositionMargin
       \/ y < PositionMargin \/ y > DEFAULT_PARK_HEIGHT - PositionMargin
    THEN FALSE
    ELSE IF \E k \in DOMAIN h.terrain_objects :
               contains_point(h.terrain_objects[k], x, y)
    THEN FALSE
    ELSE IF \E k \in DOMAIN h.rides :
               LET box == get_bounding_box(h.rides[k])
                   buffer == 2 * PositionBuffer
               IN  /\ box[1] - buffer <= 2 * x /\ 2 * x <= box[3] + buffer
                   /\ box[2] - buffer <= 2 * y /\ 2 * y <= box[4] + buffer
    THEN FALSE
    ELSE TRUE

(* is_valid_position with the ride boxes taken as they are, without the
   buffer of 2 *)
is_valid_position_NoBuffer(h, x, y) ==
    IF \/ x < PositionMargin \/ x > DEFAULT_PARK_WIDTH - PositionMargin
       \/ y < PositionMargin \/ y > DEFAULT_PARK_HEIGHT - PositionMargin
    THEN FALSE
    ELSE IF \E k \in DOMAIN h.terrain_objects :
               /\ h.terrain_objects[k].type # "pathway"
               /\ contains_point(h.terrain_objects[k], x, y)
    THEN FALSE
    ELSE IF \E k \in DOMAIN h.rides :
               LET box == get_bounding_box(h.rides[k])
               IN  /\ box[1] <= 2 * x /\ 2 * x <= box[3]
                   /\ box[2] <= 2 * y /\ 2 * y <= box[4]
    THEN FALSE
    ELSE TRUE

(* Park.is_valid_position(x, y): the three tests in the order of the code *)
is_valid_position(h, x, y) ==
    IF \/ x < PositionMargin \/ x > DEFAULT_PARK_WIDTH - PositionMargin
       \/ y < PositionMargin \/ y > DEFAULT_PARK_HEIGHT - PositionMargin
    THEN FALSE
    ELSE IF \E k \in DOMAIN h.terrain_objects :
               /\ h.terrain_objects[k].type # "pathway"
               /\ contains_point(h.terrain_objects[k], x, y)
    THEN FALSE
    ELSE IF \E k \in DOMAIN h.rides :
               LET box == get_bounding_box(h.rides[k])
                   buffer == 2 * PositionBuffer
               IN  /\ box[1] - buffer <= 2 * x /\ 2 * x <= box[3] + buffer
                   /\ box[2] - buffer <= 2 * y /\ 2 * y <= box[4] + buffer
    THEN FALSE
    ELSE TRUE

---------------------------------------------------------------------------
(* Patron (patron.py) *)

(* the random.randint ranges of Patron.__init__ *)
DesiredRides(personality) ==
    CASE personality = "thrill_seeker" -> RandIntLow(4, 6)
      [] personality = "casual" -> RandIntLow(1, 3)
      [] OTHER -> RandIntLow(2, 4)

Patience(personality) ==
    CASE personality = "thrill_seeker" -> RandIntLow(15, 25)
      [] personality = "casual" -> RandIntLow(3, 8)
      [] OTHER -> RandIntLow(5, 15)

(* The position (x, y) of a patron is kept only as far as move_to_exit reads
   it: to_exit is the number of moves of move_speed that separate the patron
   from a distance below 2 to its nearest exit, Unmeasured until
   move_to_exit first computes that distance. *)
Unmeasured == -1

(* the numbers of moves a patron that turns to the exit may be away from it *)
ExitMoves == 0 .. MaxExitMoves

(* Patron.__init__ *)
NewPatron(patron_id, personality, desired_rides, patience) ==
    [id |-> patron_id, state |-> ROAMING, target_ride |-> None,
     immobile_timer |-> DEFAULT_PATRON_IMMOBILE_TIME,
     personality |-> personality, desired_rides |-> desired_rides,
     patience |-> patience, visited_rides |-> {}, rides_completed |-> 0,
     current_target |-> None, to_exit |-> Unmeasured]

(* remove_patron that drops the last patron of the list, whoever it is *)
remove_patron_Pop(h, p) ==
    IF h.park_patrons # <<>>
    THEN [h EXCEPT !.park_patrons = SubSeq(@, 1, Len(@) - 1)]
    ELSE h

(* Park.remove_patron(patron) *)
remove_patron(h, p) ==
    IF p \in Range(h.park_patrons)
    THEN [h EXCEPT !.park_patrons = RemoveFirst(@, p)]
    ELSE h

(* exit_chance of Patron.intelligent_roam, in thousandths *)
ExitChance(personality) ==
    CASE personality = "thrill_seeker" -> 50
      [] personality = "casual" -> 120
      [] OTHER -> 80

(* the queue test with <= for < *)
QueueAcceptable_Inclusive(personality, queue_size, capacity) ==
    CASE personality = "thrill_seeker" -> queue_size <= capacity * 3
      [] personality = "casual" -> 2 * queue_size <= capacity * 3
      [] OTHER -> queue_size <= capacity * 2

(* queue_size < max_acceptable_queue: capacity * 3, * 1.5 or * 2 *)
QueueAcceptable(personality, queue_size, capacity) ==
    CASE personality = "thrill_seeker" -> queue_size < capacity * 3
      [] personality = "casual" -> 2 * queue_size < capacity * 3
      [] OTHER -> queue_size < capacity * 2

(* join_chance, in thousandths *)
JoinChance(h, p) ==
    IF h.patrons[p].current_target \notin h.patrons[p].visited_rides THEN 500 ELSE 300

(* the choice of a new target (random.choice) of Patron.intelligent_roam *)
TargetChoices(h, p) ==
    LET pat == h.patrons[p]
        all == DOMAIN h.rides
        unvisited_rides == {r \in all : r \notin pat.visited_rides}
    IN  IF pat.current_target = None \/ pat.current_target \in pat.visited_rides
        THEN IF unvisited_rides # {} THEN unvisited_rides
             ELSE IF all # {} THEN all
             ELSE {pat.current_target}
        ELSE {pat.current_target}

(* the move made without asking park.is_valid_position *)
Walk_Unchecked(h, valid) ==
    [h EXCEPT !.moved_to = IF valid THEN "valid" ELSE "invalid"]

(* "if park.is_valid_position(new_x, new_y): self.x = new_x; self.y = new_y";
   valid is the value is_valid_position returns for the position tried (for
   the second one tried, where the first was refused) *)
Walk(h, valid) ==
    IF valid THEN [h EXCEPT !.moved_to = "valid"] ELSE h

(* Patron.intelligent_roam from "Move toward current target" on; close is
   distance < 15. A move changes the position only. *)
MoveTowardTarget(h, p, close, roll, valid) ==
    LET t == h.patrons[p].current_target
    IN  IF t # None
        THEN IF /\ close
                /\ QueueAcceptable(h.patrons[p].personality,
                                   Len(h.rides[t].queue), h.rides[t].capacity)
                /\ roll < JoinChance(h, p)
             THEN add_to_queue(h, t, p)
             ELSE Walk(h, valid)
        ELSE Walk(h, valid)

(* intelligent_roam that rolls for the exit however few rides the patron
   has completed *)
intelligent_roam_ExitAnytime(h, p) ==
    LET pat == h.patrons[p]
        leaving == {roll \in Rolls : roll < ExitChance(pat.personality)}
        staying == {roll \in Rolls : ~(roll < ExitChance(pat.personality))}
    IN  {[h EXCEPT !.patrons[p].state = EXITING,
                   !.patrons[p].current_target = None] : roll \in leaving}
        \cup
        UNION {UNION {{MoveTowardTarget([h EXCEPT !.patrons[p].current_target = t],
                                        p, close, roll, valid) :
                           t \in TargetChoices(h, p), close \in BOOLEAN,
                           roll \in Rolls} :
                      valid \in BOOLEAN} :
               stay \in staying}

(* Patron.intelligent_roam(park) for a patron that stands within distance 15
   of the target it heads for (close) or farther from it: every result over
   the other draws *)
RoamAt(h, p, close) ==
    LET pat == h.patrons[p]
        leaving == IF pat.rides_completed >= pat.desired_rides
                   THEN {roll \in Rolls : roll < ExitChance(pat.personality)}
                   ELSE {}
        staying == IF pat.rides_completed >= pat.desired_rides
                   THEN {roll \in Rolls : ~(roll < ExitChance(pat.personality))}
                   ELSE {0}
    IN  {[h EXCEPT !.patrons[p].state = EXITING,
                   !.patrons[p].current_target = None] : roll \in leaving}
        \cup
        UNION {UNION {{MoveTowardTarget([h EXCEPT !.patrons[p].current_target = t],
                                        p, close, roll, valid) :
                           t \in TargetChoices(h, p), roll \in Rolls} :
                      valid \in BOOLEAN} :
               stay \in staying}

(* Patron.intelligent_roam(park): every result over its draws *)
intelligent_roam(h, p) == RoamAt(h, p, TRUE) \cup RoamAt(h, p, FALSE)

(* the first ride, in park order, whose queue holds the patron; None if none *)
QueueOf(h, p) ==
    LET holding == {r \in DOMAIN h.rides : p \in Range(h.rides[r].queue)}
    IN  IF holding = {} THEN None
        ELSE CHOOSE r \in holding : \A q \in holding : r <= q

(* check_queue_patience that gives up whether or not a queue holds the
   patron *)
check_queue_patience_Unguarded(h, p) ==
    LET r == QueueOf(h, p)
    IN  IF r = None
        THEN {[h EXCEPT !.patrons[p].state = ROAMING,
                        !.patrons[p].current_target = None]}
        ELSE LET queue_position == FirstIndex(h.rides[r].queue, p) - 1
             IN  {IF queue_position > h.patrons[p].patience /\ roll < 50
                  THEN [h EXCEPT !.rides[r].queue = RemoveFirst(@, p),
                                 !.patrons[p].state = ROAMING,
                                 !.patrons[p].current_target = None]
                  ELSE h : roll \in Rolls}

(* check_queue_patience that may give up at any place in the queue *)
check_queue_patience_Impatient(h, p) ==
    LET r == QueueOf(h, p)
    IN  IF r = None THEN {h}
        ELSE {IF roll < 50
              THEN [h EXCEPT !.rides[r].queue = RemoveFirst(@, p),
                             !.patrons[p].state = ROAMING,
                             !.patrons[p].current_target = None]
              ELSE h : roll \in Rolls}

(* check_queue_patience with queue_position >= self.patience *)
check_queue_patience_AtPatience(h, p) ==
    LET r == QueueOf(h, p)
    IN  IF r = None THEN {h}
        ELSE LET queue_position == FirstIndex(h.rides[r].queue, p) - 1
             IN  {IF queue_position >= h.patrons[p].patience /\ roll < 50
                  THEN [h EXCEPT !.rides[r].queue = RemoveFirst(@, p),
                                 !.patrons[p].state = ROAMING,
                                 !.patrons[p].current_target = None]
                  ELSE h : roll \in Rolls}

(* Patron.check_queue_patience(park): every result over its draw *)
check_queue_patience(h, p) ==
    LET r == QueueOf(h, p)
    IN  IF r = None THEN {h}
        ELSE LET queue_position == FirstIndex(h.rides[r].queue, p) - 1
             IN  {IF queue_position > h.patrons[p].patience /\ roll < 50
                  THEN [h EXCEPT !.rides[r].queue = RemoveFirst(@, p),
                                 !.patrons[p].state = ROAMING,
                                 !.patrons[p].current_target = None]
                  ELSE h : roll \in Rolls}

(* The distance move_to_exit computes, in moves: any distance the park
   allows when the patron turns to the exit, what the last move left of it
   afterwards. *)
ExitDistance(h, p) ==
    IF h.patrons[p].to_exit = Unmeasured
    THEN ExitMoves
    ELSE {h.patrons[p].to_exit}

(* move_to_exit without the test len(park.exits) > 0, the nearest exit
   taken to be wherever the patron is heading *)
move_to_exit_NoGuard(h, p) ==
    {IF moves = 0
     THEN remove_patron(h, p)
     ELSE [h EXCEPT !.exit_moved = TRUE, !.patrons[p].to_exit = moves - 1] :
        moves \in ExitDistance(h, p)}

(* move_to_exit whose move brings the patron no closer to the exit *)
move_to_exit_Stalled(h, p) ==
    IF h.exits > 0
    THEN {IF moves = 0
          THEN remove_patron(h, p)
          ELSE [h EXCEPT !.exit_moved = TRUE,
                         !.patrons[p].to_exit = moves] :
             moves \in ExitDistance(h, p)}
    ELSE {h}

(* move_to_exit that lets the patron out when one more move would bring it
   to the exit *)
move_to_exit_Early(h, p) ==
    IF h.exits > 0
    THEN {IF moves <= 1
          THEN remove_patron(h, p)
          ELSE [h EXCEPT !.exit_moved = TRUE,
                         !.patrons[p].to_exit = moves - 1] :
             moves \in ExitDistance(h, p)}
    ELSE {h}

(* Patron.move_to_exit(park): moves = 0 is distance < 2 to the nearest exit;
   a move shortens the distance by move_speed, which is below 1 *)
move_to_exit(h, p) ==
    IF h.exits > 0
    THEN {IF moves = 0
          THEN remove_patron(h, p)
          ELSE [h EXCEPT !.exit_moved = TRUE,
                         !.patrons[p].to_exit = moves - 1] :
             moves \in ExitDistance(h, p)}
    ELSE {h}

(* step_change whose immobility test is made for Roaming patrons only *)
Patron_step_change_RoamingOnly(h, p) ==
    LET pat == h.patrons[p]
    IN  IF pat.immobile_timer > 0 /\ pat.state = ROAMING
        THEN {[h EXCEPT !.patrons[p].immobile_timer = @ - 1]}
        ELSE CASE pat.state = ROAMING -> intelligent_roam(h, p)
               [] pat.state = QUEUING -> check_queue_patience(h, p)
               [] pat.state = RIDING -> {h}
               [] pat.state = EXITING -> move_to_exit(h, p)

(* Patron.step_change(park): every result over its draws *)
Patron_step_change(h, p) ==
    LET pat == h.patrons[p]
    IN  IF pat.immobile_timer > 0
        THEN {[h EXCEPT !.patrons[p].immobile_timer = @ - 1]}
        ELSE CASE pat.state = ROAMING -> intelligent_roam(h, p)
               [] pat.state = QUEUING -> check_queue_patience(h, p)
               [] pat.state = RIDING -> {h}
               [] pat.state = EXITING -> move_to_exit(h, p)

(* spawn_patron that constructs Patron(1, x, y) whatever its argument *)
spawn_patron_FixedId(h, patron_id) ==
    {[h EXCEPT !.patrons = Append(@, NewPatron(1, "balanced", d, q)),
               !.park_patrons = Append(@, Len(h.patrons) + 1)] :
        d \in DesiredRides("balanced"), q \in Patience("balanced")}

(* Park.spawn_patron(patron_id): Patron(patron_id, x, y) is "balanced" *)
spawn_patron(h, patron_id) ==
    {[h EXCEPT !.patrons = Append(@, NewPatron(patron_id, "balanced", d, q)),
               !.park_patrons = Append(@, Len(h.patrons) + 1)] :
        d \in DesiredRides("balanced"), q \in Patience("balanced")}

---------------------------------------------------------------------------
(* Simulation (simulation.py) *)

(* the time_of_day arguments the model constructs a Simulation with *)
TimesOfDay == {"afternoon", "night"}

(* base spawn rates, in hundredths: DEFAULT_SPAWN_RATE = 0.22 *)
BaseSpawnRates == {22}

(* time_effects[time_of_day]['spawn_multiplier'], in tenths *)
SpawnMultiplier(time_of_day) ==
    CASE time_of_day = "morning" -> 7
      [] time_of_day = "evening" -> 9
      [] time_of_day = "night" -> 4
      [] OTHER -> 13

(* time_effects[time_of_day]['ride_speed'], in thousandths *)
RideSpeed(time_of_day) ==
    CASE time_of_day = "evening" -> 900
      [] time_of_day = "night" -> 800
      [] OTHER -> 1000

(* __init__ with the spawn rate clamped to [0, 1] *)
NewSimulation_Clamped(max_timesteps, spawn_rate, time_of_day) ==
    LET clamped == IF spawn_rate < 0 THEN 0
                   ELSE IF spawn_rate > 100 THEN 100 ELSE spawn_rate
    IN  [constructed |-> TRUE, max_timesteps |-> max_timesteps,
         base_spawn_rate |-> clamped, time_of_day |-> time_of_day,
         current_timestep |-> 0, next_patron_id |-> 1,
         spawn_rate |-> clamped * SpawnMultiplier(time_of_day),
         ride_speed_multiplier |-> RideSpeed(time_of_day),
         total_patrons_spawned |-> 0, total_patrons_exited |-> 0,
         patron_counts |-> <<>>, queue_lengths |-> <<>>, timesteps_recorded |-> <<>>]

(* Simulation.__init__: base_spawn_rate in hundredths, spawn_rate and
   ride_speed_multiplier in thousandths *)
NewSimulation(max_timesteps, spawn_rate, time_of_day) ==
    [constructed |-> TRUE, max_timesteps |-> max_timesteps,
     base_spawn_rate |-> spawn_rate, time_of_day |-> time_of_day,
     current_timestep |-> 0, next_patron_id |-> 1,
     spawn_rate |-> spawn_rate * SpawnMultiplier(time_of_day),
     ride_speed_multiplier |-> RideSpeed(time_of_day),
     total_patrons_spawned |-> 0, total_patrons_exited |-> 0,
     patron_counts |-> <<>>, queue_lengths |-> <<>>, timesteps_recorded |-> <<>>]

NoSimulation ==
    [constructed |-> FALSE, max_timesteps |-> 0,
     base_spawn_rate |-> 0, time_of_day |-> "afternoon",
     current_timestep |-> 0, next_patron_id |-> 1,
     spawn_rate |-> 0, ride_speed_multiplier |-> 1000,
     total_patrons_spawned |-> 0, total_patrons_exited |-> 0,
     patron_counts |-> <<>>, queue_lengths |-> <<>>, timesteps_recorded |-> <<>>]

(* the copy taken before the spawn *)
PatronsToAdvance_BeforeSpawn(before_spawn, after_spawn) == before_spawn

(* the list the patron loop of Simulation.step walks: park.patrons[:],
   copied after the spawn *)
PatronsToAdvance(before_spawn, after_spawn) == after_spawn

(* the slow-down without the test ride.state == RideState.RUNNING *)
SlowDown_AnyState(h, r, ride_speed_multiplier, roll) ==
    IF /\ ride_speed_multiplier < 1000
       /\ h.rides[r].timer > 1
       /\ roll > ride_speed_multiplier
    THEN [h EXCEPT !.rides[r].timer = @ + 1]
    ELSE h

(* the time-of-day slow-down of Simulation.step, applied before the ride's
   step_change; roll is random.random() *)
SlowDown(h, r, ride_speed_multiplier, roll) ==
    IF /\ ride_speed_multiplier < 1000
       /\ h.rides[r].state = RUNNING /\ h.rides[r].timer > 1
       /\ roll > ride_speed_multiplier
    THEN [h EXCEPT !.rides[r].timer = @ + 1]
    ELSE h

(* one pass of the body of "for ride in self.park.rides" for ride r: the
   slow-down under every roll, then the ride's step_change *)
RideTurn(h, r, ride_speed_multiplier) ==
    UNION {RideStepOutcomes(SlowDown(h, r, ride_speed_multiplier, roll), r) :
              roll \in Rolls}

Idle == [pc |-> "idle", snapshot |-> <<>>, i |-> 0, j |-> 0, initial_patron_count |-> 0]

(* obs.calls[r]: the step_change calls made on ride r since the call that
   took it out of Idle, that call included *)
CountCall(before, calls) ==
    IF before.state = IDLE
    THEN IF Len(before.queue) > 0 THEN 1 ELSE calls
    ELSE calls + 1

(* obs.repeats[p]: how often patron p left the rider list of a ride it had
   visited before; h is the heap before a call on ride r, h2 the heap after *)
CountRepeats(h, h2, r, repeats) ==
    [p \in DOMAIN repeats |->
        IF /\ p \in Range(h.rides[r].riders)
           /\ p \notin Range(h2.rides[r].riders)
           /\ r \in h.patrons[p].visited_rides
        THEN repeats[p] + 1
        ELSE repeats[p]]

(* the sum of rides_completed over all the patrons constructed so far *)
RidesCompleted(h) ==
    LET sum[k \in 0..Len(h.patrons)] ==
            IF k = 0 THEN 0 ELSE sum[k - 1] + h.patrons[k].rides_completed
    IN  sum[Len(h.patrons)]

(* obs.completions[r]: how many mark_ride_completed calls the patrons
   received in the turns of ride r in the ride loop; h is the heap before
   such a turn, h2 the heap after *)
CountCompletions(h, h2, completions) ==
    completions + (RidesCompleted(h2) - RidesCompleted(h))

(* obs.unloads[r]: how many turns of ride r in the ride loop called
   unload_patrons, which the UNLOADING branch does as it makes the ride Idle *)
CountUnloads(before, after, unloads) ==
    IF before.state = UNLOADING /\ after.state = IDLE THEN unloads + 1 ELSE unloads

(* the rides of the park_with_rides fixture: a PirateShip, a FerrisWheel and
   a SpiderRide that do not overlap *)
FixtureRides ==
    <<[x |-> 40, y |-> 45, width |-> 12, height |-> 10],
      [x |-> 160, y |-> 45, width |-> 14, height |-> 14],
      [x |-> 40, y |-> 105, width |-> 16, height |-> 16]>>

(* obs.add_ride: the last call of Park.add_ride, its argument's geometry and
   the value it returned *)
NoAddRide ==
    [called |-> FALSE, x |-> 0, y |-> 0, width |-> 0, height |-> 0, returned |-> FALSE]

ObserveAddRide(ride, returned) ==
    [called |-> TRUE, x |-> ride.x, y |-> ride.y,
     width |-> ride.width, height |-> ride.height, returned |-> returned]

(* the patrons that a patron loop turned from Roaming to Queuing *)
Joined(h, h2, p, joined) ==
    IF h.patrons[p].state = ROAMING /\ h2.patrons[p].state = QUEUING
    THEN joined \cup {p}
    ELSE joined

Install(h) ==
    /\ rides' = h.rides
    /\ patrons' = h.patrons
    /\ park_patrons' = h.park_patrons
    /\ park_exits' = h.exits
    /\ terrain_objects' = h.terrain_objects

---------------------------------------------------------------------------
(* Initial state: an empty park (Park.__init__), no Simulation yet *)

Init ==
    /\ rides = <<>>
    /\ patrons = <<>>
    /\ park_patrons = <<>>
    /\ park_exits = ParkExits
    /\ terrain_objects = setup_park
    /\ sim = NoSimulation
    /\ loop = Idle
    /\ obs = [tick_start |-> <<>>, stepped |-> <<>>, spawned |-> None,
              calls |-> <<>>, repeats |-> <<>>, add_ride |-> NoAddRide,
              joined |-> {}, exit_moved |-> FALSE, moved_to |-> "nowhere",
              simulation |-> [max_timesteps |-> 0, spawn_rate |-> 0,
                              time_of_day |-> "afternoon"],
              call |-> [method |-> "", patron |-> None],
              removed |-> [patron |-> None, present |-> FALSE],
              valid |-> [called |-> FALSE, x |-> 0, y |-> 0, returned |-> FALSE],
              close |-> FALSE, completions |-> <<>>, unloads |-> <<>>]

(* park.add_ride(ride) for a ride built from geometry g with one of the
   given capacities, while the park is set up: before any patron exists *)
ParkAddRideAt(g, capacities) ==
    /\ ~sim.constructed
    /\ patrons = <<>>
    /\ \E capacity \in capacities :
          LET ride == NewRide(g.x, g.y, g.width, g.height, capacity, RideDuration)
              call == add_ride(Heap, ride)
          IN  /\ rides' = call.park.rides
              /\ obs' = [obs EXCEPT
                            !.calls = IF call.returned THEN Append(@, 0) ELSE @,
                            !.completions = IF call.returned THEN Append(@, 0) ELSE @,
                            !.unloads = IF call.returned THEN Append(@, 0) ELSE @,
                            !.add_ride = ObserveAddRide(ride, call.returned)]
    /\ UNCHANGED <<patrons, park_patrons, park_exits, terrain_objects, sim, loop>>

(* the park set up as the park_with_rides fixture sets it up, ride by ride *)
ParkAddRide(limit) ==
    /\ Len(rides) < limit
    /\ Len(rides) < Len(FixtureRides)
    /\ ParkAddRideAt(FixtureRides[Len(rides) + 1], 0..MaxCapacity)

AddRide == ParkAddRide(MaxRides)

(* Simulation(park, max_timesteps, spawn_rate, time_of_day), the arguments
   drawn from the given sets *)
ConstructWith(timesteps, rates, times) ==
    /\ ~sim.constructed
    /\ \E max_timesteps \in timesteps, spawn_rate \in rates, time_of_day \in times :
          /\ sim' = NewSimulation(max_timesteps, spawn_rate, time_of_day)
          /\ obs' = [obs EXCEPT !.simulation =
                        [max_timesteps |-> max_timesteps, spawn_rate |-> spawn_rate,
                         time_of_day |-> time_of_day]]
    /\ UNCHANGED <<rides, patrons, park_patrons, park_exits, terrain_objects, loop>>

ConstructFor(max_timesteps) == ConstructWith({max_timesteps}, BaseSpawnRates, TimesOfDay)

Construct == ConstructFor(MaxTicks)

(* Simulation.step, "Spawn new patrons", up to the copy park.patrons[:];
   called from the loop of Simulation.run *)
StepSpawnWithin(limit) ==
    /\ sim.constructed
    /\ loop.pc = "idle"
    /\ sim.current_timestep < sim.max_timesteps
    /\ \E roll \in Rolls :
          IF roll < sim.spawn_rate
          THEN /\ Len(patrons) < limit
               /\ \E h \in spawn_patron(Heap, sim.next_patron_id) :
                     /\ Install(h)
                     /\ loop' = [pc |-> "patrons",
                                 snapshot |-> PatronsToAdvance(park_patrons, h.park_patrons),
                                 i |-> 1, j |-> 0,
                                 initial_patron_count |-> Len(h.park_patrons)]
                     /\ obs' = [obs EXCEPT !.tick_start = park_patrons,
                                           !.stepped = <<>>,
                                           !.spawned = Len(h.patrons),
                                           !.repeats = Append(@, 0),
                                           !.joined = {}]
               /\ sim' = [sim EXCEPT !.next_patron_id = @ + 1,
                                     !.total_patrons_spawned = @ + 1]
          ELSE /\ loop' = [pc |-> "patrons",
                           snapshot |-> PatronsToAdvance(park_patrons, park_patrons),
                           i |-> 1, j |-> 0,
                           initial_patron_count |-> Len(park_patrons)]
               /\ obs' = [obs EXCEPT !.tick_start = park_patrons,
                                     !.stepped = <<>>,
                                     !.spawned = None,
                                     !.joined = {}]
               /\ UNCHANGED <<rides, patrons, park_patrons, park_exits, terrain_objects, sim>>

StepSpawn == StepSpawnWithin(MaxPatrons)

(* Simulation.step, one turn of "for patron in self.park.patrons[:]" *)
StepPatron ==
    /\ loop.pc = "patrons"
    /\ loop.i <= Len(loop.snapshot)
    /\ \E h \in Patron_step_change(Heap, loop.snapshot[loop.i]) :
          /\ Install(h)
          /\ obs' = [obs EXCEPT
                        !.stepped = Append(@, loop.snapshot[loop.i]),
                        !.joined = Joined(Heap, h, loop.snapshot[loop.i], @),
                        !.exit_moved = h.exit_moved]
    /\ loop' = [loop EXCEPT !.i = @ + 1]
    /\ UNCHANGED sim

(* the ride loop entered although the patron loop has patrons left *)
StepTrackExits_Early ==
    /\ loop.pc = "patrons"
    /\ sim' = [sim EXCEPT !.total_patrons_exited =
                              @ + (loop.initial_patron_count - Len(park_patrons))]
    /\ loop' = [loop EXCEPT !.pc = "rides", !.j = 1]
    /\ UNCHANGED <<rides, patrons, park_patrons, park_exits, terrain_objects, obs>>

(* "Track exits" that stores the exits of this tick over the running total *)
StepTrackExits_Overwrite ==
    /\ loop.pc = "patrons"
    /\ loop.i > Len(loop.snapshot)
    /\ sim' = [sim EXCEPT !.total_patrons_exited =
                              loop.initial_patron_count - Len(park_patrons)]
    /\ loop' = [loop EXCEPT !.pc = "rides", !.j = 1]
    /\ UNCHANGED <<rides, patrons, park_patrons, park_exits, terrain_objects, obs>>

(* Simulation.step, "Track exits" *)
StepTrackExits ==
    /\ loop.pc = "patrons"
    /\ loop.i > Len(loop.snapshot)
    /\ sim' = [sim EXCEPT !.total_patrons_exited =
                              @ + (loop.initial_patron_count - Len(park_patrons))]
    /\ loop' = [loop EXCEPT !.pc = "rides", !.j = 1]
    /\ UNCHANGED <<rides, patrons, park_patrons, park_exits, terrain_objects, obs>>

(* Simulation.step, one turn of "for ride in self.park.rides" *)
StepRide ==
    /\ loop.pc = "rides"
    /\ loop.j <= Len(rides)
    /\ \E roll \in Rolls :
          \E h \in RideStepOutcomes(
                      SlowDown(Heap, loop.j, sim.ride_speed_multiplier, roll), loop.j) :
             /\ Install(h)
             /\ obs' = [obs EXCEPT
                           !.calls[loop.j] = CountCall(rides[loop.j], @),
                           !.repeats = CountRepeats(Heap, h, loop.j, @),
                           !.completions[loop.j] = CountCompletions(Heap, h, @),
                           !.unloads[loop.j] =
                               CountUnloads(rides[loop.j], h.rides[loop.j], @)]
    /\ loop' = [loop EXCEPT !.j = @ + 1]
    /\ UNCHANGED sim

(* the sum taken over the queues and the rider lists *)
TotalQueue_WithRiders(h) ==
    LET sum[k \in 0..Len(h.rides)] ==
            IF k = 0 THEN 0
            ELSE sum[k - 1] + Len(h.rides[k].queue) + Len(h.rides[k].riders)
    IN  sum[Len(h.rides)]

(* sum(len(ride.queue) for ride in self.park.rides) *)
TotalQueue(h) ==
    LET sum[k \in 0..Len(h.rides)] ==
            IF k = 0 THEN 0 ELSE sum[k - 1] + Len(h.rides[k].queue)
    IN  sum[Len(h.rides)]

(* Simulation.step, "self.current_timestep += 1" and "Record statistics" *)
StepRecord ==
    /\ loop.pc = "rides"
    /\ loop.j > Len(rides)
    /\ sim' = [sim EXCEPT !.current_timestep = @ + 1,
                          !.patron_counts = Append(@, Len(park_patrons)),
                          !.queue_lengths = Append(@, TotalQueue(Heap)),
                          !.timesteps_recorded = Append(@, sim.current_timestep + 1)]
    /\ loop' = Idle
    /\ UNCHANGED <<rides, patrons, park_patrons, park_exits, terrain_objects, obs>>

Next ==
    \/ AddRide
    \/ Construct
    \/ StepSpawn
    \/ StepPatron
    \/ StepTrackExits
    \/ StepRide
    \/ StepRecord

Spec == Init /\ [][Next]_vars

---------------------------------------------------------------------------
(* A ride and its patrons driven by direct calls of the Ride methods, as the
   test suite drives them: no Simulation, every method called on its own *)

SetUpRide == ParkAddRide(MaxDirectRides)

(* cap on Ride.popularity_score, which counts the add_to_queue calls *)
WithinJoins(h) == \A r \in DOMAIN h.rides : h.rides[r].popularity_score <= MaxJoins

(* no method has been called on any ride or patron yet *)
Untouched ==
    /\ \A r \in DOMAIN rides :
          rides[r] = NewRide(rides[r].x, rides[r].y, rides[r].width, rides[r].height,
                             rides[r].capacity, rides[r].duration)
    /\ \A p \in DOMAIN patrons :
          patrons[p] = NewPatron(patrons[p].id, patrons[p].personality,
                                 patrons[p].desired_rides, patrons[p].patience)

(* park.add_patron(Patron(patron_id, x, y, personality=personality)), while
   the objects are set up: up to limit patrons, of the given personalities *)
AddPatronWith(limit, personalities) ==
    /\ ~sim.constructed
    /\ Len(patrons) < limit
    /\ Untouched
    /\ \E personality \in personalities :
          \E d \in DesiredRides(personality), q \in Patience(personality) :
             /\ patrons' = Append(patrons, NewPatron(Len(patrons) + 1, personality, d, q))
             /\ park_patrons' = Append(park_patrons, Len(patrons) + 1)
    /\ obs' = [obs EXCEPT !.repeats = Append(@, 0)]
    /\ UNCHANGED <<rides, park_exits, terrain_objects, sim, loop>>

AddPatron == AddPatronWith(MaxPatrons, Personalities)

(* ride.add_to_queue(patron), the patron Roaming as at the call in
   Patron.intelligent_roam *)
CallAddToQueue(r, p) ==
    /\ patrons[p].state = ROAMING
    /\ WithinJoins(add_to_queue(Heap, r, p))
    /\ Install(add_to_queue(Heap, r, p))
    /\ UNCHANGED <<sim, loop, obs>>

(* ride.load_patrons() *)
CallLoadPatrons(r) ==
    /\ Install(load_patrons(Heap, r))
    /\ UNCHANGED <<sim, loop, obs>>

(* ride.unload_patrons() *)
CallUnloadPatrons(r) ==
    /\ \E immobile \in UnloadDraws(Heap, r) :
          LET h == unload_patrons(Heap, r, immobile)
          IN  /\ Install(h)
              /\ obs' = [obs EXCEPT !.repeats = CountRepeats(Heap, h, r, @)]
    /\ UNCHANGED <<sim, loop>>

(* ride.step_change() *)
CallRideStep(r) ==
    /\ \E h \in RideStepOutcomes(Heap, r) :
          /\ Install(h)
          /\ obs' = [obs EXCEPT !.calls[r] = CountCall(rides[r], @),
                                !.repeats = CountRepeats(Heap, h, r, @)]
    /\ UNCHANGED <<sim, loop>>

(* patron.check_queue_patience(park), on any patron *)
CallCheckQueuePatience(p) ==
    /\ \E h \in check_queue_patience(Heap, p) : Install(h)
    /\ obs' = [obs EXCEPT !.call = [method |-> "check_queue_patience", patron |-> p]]
    /\ UNCHANGED <<sim, loop>>

NextRide ==
    \/ SetUpRide
    \/ AddPatron
    \/ \E r \in DOMAIN rides, p \in DOMAIN patrons : CallAddToQueue(r, p)
    \/ \E r \in DOMAIN rides : CallLoadPatrons(r)
    \/ \E r \in DOMAIN rides : CallUnloadPatrons(r)
    \/ \E r \in DOMAIN rides : CallRideStep(r)
    \/ \E p \in DOMAIN patrons : CallCheckQueuePatience(p)

SpecRide == Init /\ [][NextRide]_vars

---------------------------------------------------------------------------
(* Patrons on their way out, driven by direct calls as
   test_patron_exit_with_no_exits drives them, in a park that keeps its exits
   or has lost them *)

(* park.exits = [] *)
ClearExits ==
    /\ ~sim.constructed
    /\ park_exits > 0
    /\ park_exits' = 0
    /\ UNCHANGED <<rides, patrons, park_patrons, terrain_objects, sim, loop, obs>>

(* patron.state = PatronState.EXITING, as the test sets it *)
MarkExiting(p) ==
    /\ patrons[p].state = ROAMING
    /\ patrons' = [patrons EXCEPT ![p].state = EXITING]
    /\ UNCHANGED <<rides, park_patrons, park_exits, terrain_objects, sim, loop, obs>>

(* patron.move_to_exit(park) *)
CallMoveToExit(p) ==
    /\ \E h \in move_to_exit(Heap, p) :
          /\ Install(h)
          /\ obs' = [obs EXCEPT !.call = [method |-> "move_to_exit", patron |-> p],
                                !.exit_moved = h.exit_moved]
    /\ UNCHANGED <<sim, loop>>

(* patron.step_change(park) *)
CallPatronStep(p) ==
    /\ \E h \in Patron_step_change(Heap, p) :
          /\ Install(h)
          /\ obs' = [obs EXCEPT !.call = [method |-> "step_change", patron |-> p],
                                !.exit_moved = h.exit_moved,
                                !.moved_to = h.moved_to]
    /\ UNCHANGED <<sim, loop>>

(* park.remove_patron(patron), on any patron constructed so far; obs.removed
   tells whether park.patrons held the patron when the call was made *)
CallRemovePatron(p) ==
    /\ Install(remove_patron(Heap, p))
    /\ obs' = [obs EXCEPT !.call = [method |-> "remove_patron", patron |-> p],
                          !.removed = [patron |-> p,
                                       present |-> p \in Range(park_patrons)]]
    /\ UNCHANGED <<sim, loop>>

(* Patron(patron_id, x, y) with the default personality, then add_patron *)
AddBalanced == AddPatronWith(MaxPatrons, {"balanced"})

NextExit ==
    \/ AddBalanced
    \/ ClearExits
    \/ \E p \in DOMAIN patrons : MarkExiting(p)
    \/ \E p \in DOMAIN patrons : CallMoveToExit(p)
    \/ \E p \in DOMAIN patrons : CallPatronStep(p)
    \/ \E p \in DOMAIN patrons : CallRemovePatron(p)

SpecExit == Init /\ [][NextExit]_vars

---------------------------------------------------------------------------
(* A longer run of the engine on a park with one ride that patrons may have
   entered through park.add_patron before the Simulation is constructed:
   long enough for a patron to finish its rides and leave *)

OpenDay == ConstructFor(MaxDayTicks)

NextDay ==
    \/ SetUpRide
    \/ AddPatron
    \/ OpenDay
    \/ StepSpawn
    \/ StepPatron
    \/ StepTrackExits
    \/ StepRide
    \/ StepRecord

SpecDay == Init /\ [][NextDay]_vars

---------------------------------------------------------------------------
(* A park laid out by hand: rides of every kind offered to Park.add_ride at
   centres that lie near each other and far apart, then a short run *)

(* the centres offered: those of test_ride_overlap_detection, two that lie
   16 and 17 away from the first along one axis, and a far one *)
Sites == {<<100, 100>>, <<105, 105>>, <<100, 116>>, <<117, 100>>, <<200, 200>>}

(* the rides that can be offered, as geometry *)
Candidates ==
    {[x |-> site[1], y |-> site[2], width |-> kind.width, height |-> kind.height] :
        site \in Sites, kind \in RideKinds}

PlaceRide ==
    /\ \E g \in Candidates : ParkAddRideAt(g, {MaxCapacity})
    /\ Len(rides') <= MaxPlaced

OpenPark == ConstructFor(MaxParkTicks)

NextPark ==
    \/ PlaceRide
    \/ OpenPark
    \/ StepSpawn
    \/ StepPatron
    \/ StepTrackExits
    \/ StepRide
    \/ StepRecord

SpecPark == Init /\ [][NextPark]_vars

---------------------------------------------------------------------------
(* Simulation.run from its call to its return, for spawn rates inside and
   outside [0, 1] and every time of day. No patron is in the park before the
   run, so the run spawns at most max_timesteps <= MaxPatrons patrons. *)

(* spawn_rate arguments, in hundredths: -0.1, 0, 0.22, 1, 1.5 and 3 *)
RunSpawnRates == {-10, 0, 22, 100, 150, 300}

(* time_of_day arguments: the four keys of time_effects and one that is not *)
RunTimesOfDay == {"morning", "afternoon", "evening", "night", "noon"}

StartRun == ConstructWith(0..MaxRunTicks, RunSpawnRates, RunTimesOfDay)

(* run() stopping as soon as nobody is in the park *)
RunReturn_WhenEmpty ==
    /\ sim.constructed
    /\ loop.pc = "idle"
    /\ ~(sim.current_timestep < sim.max_timesteps) \/ park_patrons = <<>>
    /\ loop' = [loop EXCEPT !.pc = "done"]
    /\ UNCHANGED <<rides, patrons, park_patrons, park_exits, terrain_objects, sim, obs>>

(* Simulation.run: the while loop is left and run returns *)
RunReturn ==
    /\ sim.constructed
    /\ loop.pc = "idle"
    /\ ~(sim.current_timestep < sim.max_timesteps)
    /\ loop' = [loop EXCEPT !.pc = "done"]
    /\ UNCHANGED <<rides, patrons, park_patrons, park_exits, terrain_objects, sim, obs>>

NextRun ==
    \/ AddRide
    \/ StartRun
    \/ StepSpawn
    \/ StepPatron
    \/ StepTrackExits
    \/ StepRide
    \/ StepRecord
    \/ RunReturn

SpecRun == Init /\ [][NextRun]_vars

(* one thread runs the program: a step that can be taken is taken *)
FairSpecRun == SpecRun /\ WF_vars(NextRun)

---------------------------------------------------------------------------
(* A queue long enough for a patron to lose patience: casual patrons, whose
   patience is lowest, joining one ride by direct add_to_queue calls, giving
   up in direct check_queue_patience calls, and boarding in load_patrons *)

(* ride.add_to_queue(patron) on a Roaming patron, up to MaxQueueJoins times
   a ride *)
JoinQueue(r, p) ==
    /\ patrons[p].state = ROAMING
    /\ rides[r].popularity_score < MaxQueueJoins
    /\ Install(add_to_queue(Heap, r, p))
    /\ UNCHANGED <<sim, loop, obs>>

AddCasual == AddPatronWith(MaxQueuePatrons, {"casual"})

NextQueue ==
    \/ SetUpRide
    \/ AddCasual
    \/ \E r \in DOMAIN rides, p \in DOMAIN patrons : JoinQueue(r, p)
    \/ \E p \in DOMAIN patrons : CallCheckQueuePatience(p)
    \/ \E r \in DOMAIN rides : CallLoadPatrons(r)

SpecQueue == Init /\ [][NextQueue]_vars

---------------------------------------------------------------------------
(* Patrons stepped by direct calls of Patron.step_change in a park with a
   ride, between direct calls of the ride's methods: a patron is stepped in
   whatever state and with whatever immobile timer the calls have left it *)

(* patron.step_change(park), as long as the joins stay within MaxJoins *)
CallPatronStepWithin(p) ==
    /\ CallPatronStep(p)
    /\ WithinJoins([rides |-> rides'])

NextVisit ==
    \/ SetUpRide
    \/ AddPatron
    \/ \E r \in DOMAIN rides, p \in DOMAIN patrons : CallAddToQueue(r, p)
    \/ \E r \in DOMAIN rides : CallLoadPatrons(r)
    \/ \E r \in DOMAIN rides : CallRideStep(r)
    \/ \E p \in DOMAIN patrons : MarkExiting(p)
    \/ \E p \in DOMAIN patrons : CallPatronStepWithin(p)

SpecVisit == Init /\ [][NextVisit]_vars

---------------------------------------------------------------------------
(* Park.is_valid_position asked about points of a park that holds a ride, in
   any state of its cycle, and terrain objects added by hand *)

(* the terrain objects offered to add_terrain_object: the obstacle of
   test_terrain_object_collision and a pathway that crosses it *)
TerrainOffered ==
    {NewTerrainObject(200, 200, 20, 20, "obstacle"),
     NewTerrainObject(200, 210, 30, 10, "pathway")}

(* the points asked about: on and just outside the margin of the park, the
   box of the fixture's first ride widened by its buffer, the obstacle, and
   the pathway where it crosses the obstacle and where it does not *)
Points ==
    {<<11, 150>>, <<12, 150>>, <<268, 150>>, <<269, 150>>,
     <<150, 11>>, <<150, 12>>, <<150, 188>>, <<150, 189>>,
     <<12, 12>>, <<268, 188>>,
     <<31, 45>>, <<32, 45>>, <<48, 45>>, <<49, 45>>,
     <<40, 37>>, <<40, 38>>, <<40, 52>>, <<40, 53>>,
     <<40, 45>>, <<32, 38>>, <<48, 52>>, <<33, 41>>,
     <<89, 95>>, <<90, 95>>, <<110, 95>>, <<111, 95>>,
     <<100, 89>>, <<100, 90>>, <<100, 110>>, <<100, 111>>,
     <<100, 95>>, <<100, 105>>, <<87, 105>>, <<115, 105>>}

(* park.add_terrain_object(terrain_obj) *)
CallAddTerrainObject ==
    /\ Len(terrain_objects) < Len(setup_park) + MaxTerrain
    /\ \E terrain_obj \in TerrainOffered :
          /\ terrain_obj \notin Range(terrain_objects)
          /\ Install(add_terrain_object(Heap, terrain_obj))
    /\ UNCHANGED <<sim, loop, obs>>

(* park.is_valid_position(x, y); obs.valid keeps the arguments and the value
   returned *)
CallIsValidPosition ==
    /\ \E point \in Points :
          obs' = [obs EXCEPT !.valid =
                     [called |-> TRUE, x |-> point[1], y |-> point[2],
                      returned |-> is_valid_position(Heap, point[1], point[2])]]
    /\ UNCHANGED <<rides, patrons, park_patrons, park_exits, terrain_objects, sim, loop>>

(* one visitor, to take the ride through its states *)
AddVisitor == AddPatronWith(1, {"balanced"})

NextPosition ==
    \/ SetUpRide
    \/ AddVisitor
    \/ \E r \in DOMAIN rides, p \in DOMAIN patrons : CallAddToQueue(r, p)
    \/ \E r \in DOMAIN rides : CallRideStep(r)
    \/ CallAddTerrainObject
    \/ CallIsValidPosition

SpecPosition == Init /\ [][NextPosition]_vars

---------------------------------------------------------------------------
(* The engine under every time of day, the unknown one included, with one
   ride and one visitor let in before the run, for as many ticks as take the
   ride through Loading and Running into Unloading *)

(* spawn_rate arguments, in hundredths: none but 0, the visitor is there *)
NoSpawnRates == {0}

OpenSpeed == ConstructWith({MaxSpeedTicks}, NoSpawnRates, RunTimesOfDay)

NextSpeed ==
    \/ SetUpRide
    \/ AddVisitor
    \/ OpenSpeed
    \/ StepSpawn
    \/ StepPatron
    \/ StepTrackExits
    \/ StepRide
    \/ StepRecord

SpecSpeed == Init /\ [][NextSpeed]_vars

---------------------------------------------------------------------------
(* Properties *)

(* the places (queues and rider lists of all rides) that hold patron p *)
Places(p) ==
    LET count[k \in 0..Len(rides)] ==
            IF k = 0 THEN 0
            ELSE count[k - 1] + Occurrences(rides[k].queue, p)
                              + Occurrences(rides[k].riders, p)
    IN  count[Len(rides)]

(* the step_change calls, counted from the one that leaves Idle, after which
   ride r enters Running, enters Unloading and is back in Idle *)
CallsToRunning(r) == rides[r].loading_time + 1
CallsToUnloading(r) == CallsToRunning(r) + rides[r].duration
CallsToIdle(r) == CallsToUnloading(r) + rides[r].unload_time

(* C1: in every state reached by add_to_queue, load_patrons, unload_patrons
   and step_change calls in any order, no ride carries more riders than its
   capacity *)
C1_CapacityInvariant ==
    \A r \in DOMAIN rides : Len(rides[r].riders) <= rides[r].capacity

(* a full ride with patrons still waiting in its queue *)
C1_Witness ==
    \E r \in DOMAIN rides :
        /\ rides[r].capacity >= 1
        /\ Len(rides[r].riders) = rides[r].capacity
        /\ Len(rides[r].queue) >= 1

(* C2 as stated: when the patron loop of a tick is over, the patrons advanced
   are those that were active before the spawn, so a patron spawned in this
   tick has not been advanced *)
C2_Original ==
    loop.pc = "rides" => obs.stepped = obs.tick_start

(* C2 as amended: when the patron loop of a tick is over, the patrons
   advanced are, each exactly once and in order, those active before the
   spawn followed by the patron spawned in this tick, if any *)
C2_SnapshotAfterSpawn ==
    loop.pc = "rides" =>
        obs.stepped = obs.tick_start \o
                      (IF obs.spawned # None THEN <<obs.spawned>> ELSE <<>>)

(* a tick that spawned a patron into a park whose only patron left during
   the patron loop of that same tick, with the patron loop over *)
C2_Witness ==
    /\ loop.pc = "rides"
    /\ obs.spawned # None
    /\ Len(obs.tick_start) >= 1
    /\ Len(obs.stepped) = Len(obs.tick_start) + 1
    /\ \E k \in DOMAIN obs.tick_start : obs.tick_start[k] \notin Range(park_patrons)

(* C3 as stated: rides_completed equals the number of rides visited *)
C3_Original ==
    \A p \in DOMAIN patrons :
        patrons[p].rides_completed = Cardinality(patrons[p].visited_rides)

(* C3 as amended: rides_completed equals the number of rides visited plus
   the number of times the patron rode a ride it had visited before; so it
   is never less, and equal as long as no ride was repeated *)
C3_CompletedCountsRepeats ==
    \A p \in DOMAIN patrons :
        /\ patrons[p].rides_completed =
               Cardinality(patrons[p].visited_rides) + obs.repeats[p]
        /\ patrons[p].rides_completed >= Cardinality(patrons[p].visited_rides)

(* a patron that has ridden the same ride a second time *)
C3_Witness ==
    \E p \in DOMAIN patrons :
        /\ obs.repeats[p] >= 1
        /\ patrons[p].rides_completed > Cardinality(patrons[p].visited_rides)

(* C4 as stated: a ride with capacity >= 1 taken out of Idle by a queued
   patron is Running with a rider after loading_time step_change calls *)
C4_Original ==
    \A r \in DOMAIN rides :
        (rides[r].capacity >= 1 /\ obs.calls[r] = rides[r].loading_time) =>
            (rides[r].state = RUNNING /\ Len(rides[r].riders) >= 1)

(* C4 as amended: after loading_time calls such a ride is still Loading,
   its patron boarded; after loading_time + 1 calls it is Running with at
   least one rider *)
C4_RunningAfterLoadingPlusOne ==
    \A r \in DOMAIN rides :
        rides[r].capacity >= 1 =>
            /\ obs.calls[r] = rides[r].loading_time =>
                   (rides[r].state = LOADING /\ Len(rides[r].riders) >= 1)
            /\ obs.calls[r] = CallsToRunning(r) =>
                   (rides[r].state = RUNNING /\ Len(rides[r].riders) >= 1)

(* a ride that has just entered Running, loading_time + 1 calls after its
   queue was empty and it was Idle *)
C4_Witness ==
    \E r \in DOMAIN rides :
        /\ obs.calls[r] = CallsToRunning(r)
        /\ rides[r].state = RUNNING
        /\ rides[r].timer = rides[r].duration

(* C5: without time-of-day inflation a ride that entered Running stays
   Running for exactly duration calls, then enters Unloading with
   total_cycles one higher, stays Unloading for exactly unload_time calls,
   then is Idle with no riders and total_riders_served raised by the number
   of riders that were on board, a number that did not change meanwhile *)
C5_RunUnload ==
    [][sim.ride_speed_multiplier = 1000 =>
         \A r \in DOMAIN rides :
            /\ rides'[r].state = RUNNING =>
                   obs'.calls[r] \in CallsToRunning(r)..(CallsToUnloading(r) - 1)
            /\ rides'[r].state = UNLOADING =>
                   obs'.calls[r] \in CallsToUnloading(r)..(CallsToIdle(r) - 1)
            /\ (rides[r].state = RUNNING /\ rides'[r].state # RUNNING) =>
                   /\ rides'[r].state = UNLOADING
                   /\ obs'.calls[r] = CallsToUnloading(r)
                   /\ rides'[r].total_cycles = rides[r].total_cycles + 1
                   /\ rides'[r].riders = rides[r].riders
            /\ (rides[r].state = RUNNING /\ rides'[r].state = RUNNING) =>
                   /\ rides'[r].total_cycles = rides[r].total_cycles
                   /\ rides'[r].riders = rides[r].riders
            /\ (rides[r].state = UNLOADING /\ rides'[r].state # UNLOADING) =>
                   /\ rides'[r].state = IDLE
                   /\ obs'.calls[r] = CallsToIdle(r)
                   /\ rides'[r].riders = <<>>
                   /\ rides'[r].total_riders_served =
                          rides[r].total_riders_served + Len(rides[r].riders)
                   /\ rides'[r].total_cycles = rides[r].total_cycles
            /\ (rides[r].state = UNLOADING /\ rides'[r].state = UNLOADING) =>
                   /\ rides'[r].riders = rides[r].riders
                   /\ rides'[r].total_riders_served = rides[r].total_riders_served
    ]_vars

(* an afternoon ride back in Idle after one whole cycle that served riders *)
C5_Witness ==
    /\ sim.ride_speed_multiplier = 1000
    /\ sim.constructed
    /\ \E r \in DOMAIN rides :
          /\ rides[r].state = IDLE
          /\ obs.calls[r] = CallsToIdle(r)
          /\ rides[r].total_cycles = 1
          /\ rides[r].total_riders_served >= 1

(* C6: a ride of capacity 0 never has a rider and is never Running or
   Unloading; a step_change call on it leaves its queue as it was and moves
   it only from Idle to Loading or from Loading to Idle *)
C6_ZeroCapacity ==
    [][\A r \in DOMAIN rides :
          rides[r].capacity = 0 =>
             /\ rides'[r].riders = <<>>
             /\ rides'[r].state \in {IDLE, LOADING}
             /\ CallRideStep(r) =>
                   /\ rides'[r].queue = rides[r].queue
                   /\ rides'[r].state # rides[r].state =>
                          <<rides[r].state, rides'[r].state>> \in
                              {<<IDLE, LOADING>>, <<LOADING, IDLE>>}
    ]_vars

(* a ride of capacity 0 back in Idle after a whole Loading phase, its
   patrons still queued *)
C6_Witness ==
    \E r \in DOMAIN rides :
        /\ rides[r].capacity = 0
        /\ Len(rides[r].queue) >= 1
        /\ rides[r].state = IDLE
        /\ obs.calls[r] = CallsToRunning(r)

(* C7: in an engine run a ride in state Idle has no riders *)
C7_IdleIsEmpty ==
    \A r \in DOMAIN rides : rides[r].state = IDLE => rides[r].riders = <<>>

(* a ride in Idle that has unloaded riders before *)
C7_Witness ==
    \E r \in DOMAIN rides :
        /\ rides[r].state = IDLE
        /\ rides[r].total_riders_served >= 1
        /\ sim.constructed

(* C8: a ride changes state only Idle->Loading, Loading->Running,
   Loading->Idle, Running->Unloading or Unloading->Idle; it leaves Loading
   into Running with at least one rider on board and into Idle with none *)
C8_Transitions ==
    [][\A r \in DOMAIN rides :
          rides'[r].state # rides[r].state =>
             /\ <<rides[r].state, rides'[r].state>> \in
                    {<<IDLE, LOADING>>, <<LOADING, RUNNING>>, <<LOADING, IDLE>>,
                     <<RUNNING, UNLOADING>>, <<UNLOADING, IDLE>>}
             /\ rides[r].state = LOADING =>
                    (rides'[r].state = RUNNING <=> Len(rides'[r].riders) > 0)
             /\ rides[r].state = LOADING =>
                    (rides'[r].state = IDLE <=> Len(rides'[r].riders) = 0)
    ]_vars

(* a ride that has gone through every state and is Loading again *)
C8_Witness ==
    \E r \in DOMAIN rides :
        /\ rides[r].total_cycles >= 1
        /\ rides[r].state = LOADING

(* C9: in an engine run every patron is in at most one place among the
   queues and the rider lists of all rides *)
C9_OnePlace ==
    \A p \in DOMAIN patrons : Places(p) <= 1

(* two patrons held by rides at once, one of them on board *)
C9_Witness ==
    /\ sim.constructed
    /\ \E p, q \in DOMAIN patrons :
          /\ p # q
          /\ Places(p) = 1
          /\ Places(q) = 1
          /\ \E r \in DOMAIN rides : p \in Range(rides[r].riders)

(* C10: a Roaming patron that is queued becomes Queuing at the tail of the
   queue; boarding makes it Riding; a patron that leaves the rider list of
   a ride is Roaming, with rides_completed one higher and the ride among
   its visited rides, which are the same as before when it had visited the
   ride already and one more otherwise *)
C10_Lifecycle ==
    [][\A p \in DOMAIN patrons :
          /\ (patrons[p].state = ROAMING /\ patrons'[p].state = QUEUING) =>
                \E r \in DOMAIN rides : rides'[r].queue = Append(rides[r].queue, p)
          /\ \A r \in DOMAIN rides :
                /\ (p \notin Range(rides[r].riders) /\ p \in Range(rides'[r].riders)) =>
                      patrons'[p].state = RIDING
                /\ (p \in Range(rides[r].riders) /\ p \notin Range(rides'[r].riders)) =>
                      /\ patrons'[p].state = ROAMING
                      /\ patrons'[p].rides_completed = patrons[p].rides_completed + 1
                      /\ patrons'[p].visited_rides = patrons[p].visited_rides \cup {r}
                      /\ Cardinality(patrons'[p].visited_rides) =
                             Cardinality(patrons[p].visited_rides) +
                             (IF r \in patrons[p].visited_rides THEN 0 ELSE 1)
    ]_vars

(* a patron back in Roaming after two round trips on the same ride *)
C10_Witness ==
    \E p \in DOMAIN patrons, r \in DOMAIN rides :
        /\ patrons[p].state = ROAMING
        /\ patrons[p].rides_completed = 2
        /\ patrons[p].visited_rides = {r}
        /\ rides[r].total_riders_served >= 2

(* |a - b| *)
Dist(a, b) == IF a >= b THEN a - b ELSE b - a

(* the centres of a and b are at most (width1 + width2)/2 + buffer apart
   along x and at most (height1 + height2)/2 + buffer apart along y *)
WithinReach(a, b) ==
    /\ 2 * Dist(a.x, b.x) <= a.width + b.width + 2 * OverlapBuffer
    /\ 2 * Dist(a.y, b.y) <= a.height + b.height + 2 * OverlapBuffer

(* the centres of a and b are closer than (width1 + width2)/2 + buffer *)
CentresCloserThanWidths(a, b) ==
    4 * (Dist(a.x, b.x) * Dist(a.x, b.x) + Dist(a.y, b.y) * Dist(a.y, b.y)) <
        (a.width + b.width + 2 * OverlapBuffer) * (a.width + b.width + 2 * OverlapBuffer)

(* C13 as stated: of two rides whose centres are closer than
   (width1 + width2)/2 + buffer the one added second is rejected, so the
   park never holds two such rides *)
C13_Original ==
    \A i, j \in DOMAIN rides :
        i # j => ~CentresCloserThanWidths(rides[i], rides[j])

(* C13 as amended: overlaps_with is symmetric; add_ride rejects a ride
   exactly when its centre lies within (width1 + width2)/2 + buffer along x
   and within (height1 + height2)/2 + buffer along y of the centre of a ride
   already in the park, whichever of the two came first, so the park never
   holds two such rides and every other ride is accepted *)
C13_OverlapRejection ==
    /\ \A k \in DOMAIN rides, g \in Candidates :
          overlaps_with(g, rides[k]) = overlaps_with(rides[k], g)
    /\ \A i, j \in DOMAIN rides : i # j => ~WithinReach(rides[i], rides[j])
    /\ obs.add_ride.called =>
          IF obs.add_ride.returned
          THEN /\ rides # <<>>
               /\ \A k \in 1..(Len(rides) - 1) : ~WithinReach(obs.add_ride, rides[k])
          ELSE \E k \in DOMAIN rides : WithinReach(obs.add_ride, rides[k])

(* a ride rejected although it is narrower than the ride it is too near to:
   the park holds a ride, the wider one, that would have been rejected had
   the two been offered in the other order *)
C13_Witness ==
    /\ obs.add_ride.called
    /\ ~obs.add_ride.returned
    /\ \E k \in DOMAIN rides :
          /\ WithinReach(rides[k], obs.add_ride)
          /\ rides[k].width > obs.add_ride.width
          /\ <<rides[k].x, rides[k].y>> # <<obs.add_ride.x, obs.add_ride.y>>

(* C14: a call of Park.add_ride with a ride that overlaps a ride of the park
   returns False and changes nothing in the park; any other call returns
   True, appends the ride, new, at the end of park.rides and changes nothing
   else *)
C14_AddRide ==
    [][(~sim.constructed /\ ~sim'.constructed) =>
          LET call == obs'.add_ride
          IN  /\ call.called
              /\ patrons' = patrons
              /\ park_patrons' = park_patrons
              /\ IF \E k \in DOMAIN rides : overlaps_with(call, rides[k])
                 THEN ~call.returned /\ rides' = rides
                 ELSE /\ call.returned
                      /\ Len(rides') = Len(rides) + 1
                      /\ SubSeq(rides', 1, Len(rides)) = rides
                      /\ LET ride == rides'[Len(rides')]
                         IN  /\ <<ride.x, ride.y, ride.width, ride.height>> =
                                    <<call.x, call.y, call.width, call.height>>
                             /\ ride.state = IDLE
                             /\ ride.queue = <<>>
                             /\ ride.riders = <<>>
    ]_vars

(* a ride turned away by a park of two rides because of the second one *)
C14_Witness ==
    /\ obs.add_ride.called
    /\ ~obs.add_ride.returned
    /\ Len(rides) = 2
    /\ ~overlaps_with(obs.add_ride, rides[1])
    /\ overlaps_with(obs.add_ride, rides[2])

(* the bounding box of a ride grown by the placement buffer on every side,
   doubled: <<x_min, y_min, x_max, y_max>> *)
Footprint(ride) ==
    <<2 * ride.x - ride.width - 2 * OverlapBuffer,
      2 * ride.y - ride.height - 2 * OverlapBuffer,
      2 * ride.x + ride.width + 2 * OverlapBuffer,
      2 * ride.y + ride.height + 2 * OverlapBuffer>>

(* the boxes a and b have a point in common *)
BoxesMeet(a, b) ==
    /\ a[1] <= b[3] /\ b[1] <= a[3]
    /\ a[2] <= b[4] /\ b[2] <= a[4]

(* C15: whatever add_ride calls were made and however many ticks followed,
   no ride of the park has a bounding box that, grown by the buffer of 5,
   meets the bounding box of another ride of the park *)
C15_NoOverlap ==
    \A i, j \in DOMAIN rides :
        i # j => ~BoxesMeet(Footprint(rides[i]), get_bounding_box(rides[j]))

(* a park of two rides, after a rejected call, at the end of a run in which
   a patron was spawned *)
C15_Witness ==
    /\ obs.add_ride.called
    /\ ~obs.add_ride.returned
    /\ Len(rides) = 2
    /\ sim.constructed
    /\ sim.current_timestep = sim.max_timesteps
    /\ sim.max_timesteps >= 1
    /\ patrons # <<>>

(* the step is one turn of the ride loop of Simulation.step *)
IsRideTurn == loop.pc = "rides" /\ loop'.pc = "rides" /\ loop'.j = loop.j + 1

(* C11 as stated: when a ride is stepped every patron of the tick has been
   stepped; a ride that holds in its queue a patron that joined in this tick
   goes from Idle to Loading in its step, and boards that patron in its
   step if it is Loading with fewer riders than its capacity *)
C11_Original ==
    [][IsRideTurn =>
          /\ obs.stepped = loop.snapshot
          /\ \A p \in obs.joined :
                p \in Range(rides[loop.j].queue) =>
                   /\ rides[loop.j].state = IDLE => rides'[loop.j].state = LOADING
                   /\ (/\ rides[loop.j].state = LOADING
                       /\ Len(rides[loop.j].riders) < rides[loop.j].capacity) =>
                          p \in Range(rides'[loop.j].riders)
    ]_vars

(* C11 as amended: when a ride is stepped every patron of the tick has been
   stepped; a ride that holds in its queue a patron that joined in this tick
   goes from Idle to Loading in its step, and boards that patron in its
   step if it is Loading and has more free places than there are patrons
   ahead of that patron in the queue *)
C11_PatronsBeforeRides ==
    [][IsRideTurn =>
          /\ obs.stepped = loop.snapshot
          /\ \A p \in obs.joined :
                p \in Range(rides[loop.j].queue) =>
                   /\ rides[loop.j].state = IDLE => rides'[loop.j].state = LOADING
                   /\ (/\ rides[loop.j].state = LOADING
                       /\ FirstIndex(rides[loop.j].queue, p) <=
                              rides[loop.j].capacity - Len(rides[loop.j].riders)) =>
                          p \in Range(rides'[loop.j].riders)
    ]_vars

(* a patron on board of a ride that has been stepped in the tick in which
   the patron joined its queue, behind a patron that had joined earlier *)
C11_Witness ==
    /\ loop.pc = "rides"
    /\ \E p \in obs.joined, r \in DOMAIN rides :
          /\ loop.j > r
          /\ p \in Range(rides[r].riders)
          /\ Len(rides[r].riders) = 2
          /\ rides[r].riders[2] = p

(* C12: a run terminates, and when it has returned current_timestep equals
   max_timesteps, whatever the spawn rate, the time of day and the park,
   the park without rides and the park without patrons included *)
C12_RunTerminates ==
    sim.constructed ~>
        (loop.pc = "done" /\ sim.current_timestep = obs.simulation.max_timesteps)

(* a run of MaxRunTicks ticks that has returned, in a park with no ride and
   nobody in it from the first tick to the last *)
C12_Witness ==
    /\ loop.pc = "done"
    /\ obs.simulation.max_timesteps = MaxRunTicks
    /\ sim.current_timestep = MaxRunTicks
    /\ rides = <<>>
    /\ patrons = <<>>

(* the step is the spawn phase of Simulation.step *)
IsSpawnPhase == loop.pc = "idle" /\ loop'.pc = "patrons"

(* C18 as stated: the rate is not clamped; with a spawn rate below 0 no step
   spawns a patron, with a spawn rate above 1 every step spawns one *)
C18_Original ==
    [][IsSpawnPhase =>
          /\ sim.base_spawn_rate = obs.simulation.spawn_rate
          /\ obs.simulation.spawn_rate < 0 => obs'.spawned = None
          /\ obs.simulation.spawn_rate > 100 => obs'.spawned # None
    ]_vars

(* C18 as amended: the rate is not clamped, the rate used is the spawn rate
   times the spawn multiplier of the time of day; with a spawn rate below 0
   no step spawns a patron, and every step spawns one when that product is
   1 or more *)
C18_SpawnRateNotClamped ==
    [][IsSpawnPhase =>
          /\ sim.base_spawn_rate = obs.simulation.spawn_rate
          /\ sim.spawn_rate =
                 obs.simulation.spawn_rate * SpawnMultiplier(obs.simulation.time_of_day)
          /\ obs.simulation.spawn_rate < 0 => obs'.spawned = None
          /\ sim.spawn_rate >= 1000 => obs'.spawned # None
          /\ sim'.total_patrons_spawned =
                 sim.total_patrons_spawned + (IF obs'.spawned # None THEN 1 ELSE 0)
    ]_vars

(* a night run with spawn rate 3 that has spawned a patron in each of its
   ticks *)
C18_Witness ==
    /\ obs.simulation.spawn_rate > 100
    /\ obs.simulation.time_of_day = "night"
    /\ sim.current_timestep = MaxRunTicks
    /\ sim.total_patrons_spawned = MaxRunTicks

(* min(a, b) and max(a, b) *)
Min(a, b) == IF a <= b THEN a ELSE b
Max(a, b) == IF a >= b THEN a ELSE b

(* C16: load_patrons moves min(len(queue), max(0, capacity - len(riders)))
   patrons from the front of the queue to the end of riders, in queue order,
   makes each of them Riding, leaves the rest of the queue in order and
   every other patron as it was; it changes nothing when riders is full *)
C16_LoadPatrons ==
    [][\A r \in DOMAIN rides :
          CallLoadPatrons(r) =>
             LET n == Min(Len(rides[r].queue),
                          Max(0, rides[r].capacity - Len(rides[r].riders)))
                 moved == SubSeq(rides[r].queue, 1, n)
             IN  /\ rides'[r].riders = rides[r].riders \o moved
                 /\ rides'[r].queue = SubSeq(rides[r].queue, n + 1, Len(rides[r].queue))
                 /\ \A p \in DOMAIN patrons :
                       IF p \in Range(moved)
                       THEN patrons'[p] = [patrons[p] EXCEPT !.state = RIDING]
                       ELSE patrons'[p] = patrons[p]
                 /\ Len(rides[r].riders) >= rides[r].capacity => rides' = rides
    ]_vars

(* a ride of capacity 1 loaded by a direct call from a queue of two: the
   first patron is on board, the second is still queued *)
C16_Witness ==
    \E r \in DOMAIN rides :
        /\ rides[r].capacity = 1
        /\ rides[r].state = IDLE
        /\ rides[r].riders = <<1>>
        /\ rides[r].queue = <<2>>
        /\ patrons[1].state = RIDING
        /\ patrons[2].state = QUEUING

(* C19: in a park without exit points a call of move_to_exit or step_change
   on an Exiting patron leaves the patron Exiting, where it is, and in
   park.patrons, and changes nothing else than the patron's immobile timer *)
C19_NoExits ==
    [][\A p \in DOMAIN patrons :
          (/\ park_exits = 0
           /\ patrons[p].state = EXITING
           /\ CallMoveToExit(p) \/ CallPatronStep(p)) =>
              /\ patrons'[p].state = EXITING
              /\ ~obs'.exit_moved
              /\ park_patrons' = park_patrons
              /\ patrons' = patrons \/
                     patrons' = [patrons EXCEPT ![p].immobile_timer = @ - 1]
              /\ rides' = rides
    ]_vars

(* an Exiting patron, free to move, after a step_change call on it in a
   park without exit points, still in the park *)
C19_Witness ==
    /\ park_exits = 0
    /\ \E p \in DOMAIN patrons :
          /\ patrons[p].state = EXITING
          /\ patrons[p].immobile_timer = 0
          /\ obs.call = [method |-> "step_change", patron |-> p]
          /\ p \in Range(park_patrons)

(* C20: a call of check_queue_patience on a patron that no queue holds
   changes no queue, no rider list, no patron and nothing else of the park *)
C20_PatienceCheckNoQueue ==
    [][\A p \in DOMAIN patrons :
          (CallCheckQueuePatience(p) /\ QueueOf(Heap, p) = None) =>
              /\ rides' = rides
              /\ patrons' = patrons
              /\ park_patrons' = park_patrons
    ]_vars

(* a patience check just made on a patron that the ride had taken from its
   queue on board *)
C20_Witness ==
    \E p \in DOMAIN patrons, r \in DOMAIN rides :
        /\ obs.call = [method |-> "check_queue_patience", patron |-> p]
        /\ p \in Range(rides[r].riders)
        /\ patrons[p].state = RIDING
        /\ QueueOf(Heap, p) = None

(* the step is the end of Simulation.step: the tick counter and the
   statistics *)
IsRecord == loop.pc = "rides" /\ loop'.pc = "idle"

(* C17: a call of Simulation.step adds exactly 1 to current_timestep and
   one entry to each of patron_counts, queue_lengths and timesteps_recorded,
   all at its end: the patrons of the tick (those there at its start and the
   one spawned) that have not left the park, the patrons that wait in a
   queue once every ride has been stepped, and the new tick number *)
C17_StepRecords ==
    [][IF IsRecord
       THEN /\ loop.j > Len(rides)
            /\ sim'.current_timestep = sim.current_timestep + 1
            /\ sim'.patron_counts = Append(sim.patron_counts,
                   Cardinality({k \in DOMAIN loop.snapshot :
                                   loop.snapshot[k] \in Range(park_patrons)}))
            /\ Len(loop.snapshot) =
                   Len(obs.tick_start) + (IF obs.spawned # None THEN 1 ELSE 0)
            /\ sim'.queue_lengths = Append(sim.queue_lengths,
                   Cardinality({p \in DOMAIN patrons : QueueOf(Heap, p) # None}))
            /\ sim'.timesteps_recorded =
                   Append(sim.timesteps_recorded, sim'.current_timestep)
       ELSE /\ sim'.current_timestep = sim.current_timestep
            /\ sim'.patron_counts = sim.patron_counts
            /\ sim'.queue_lengths = sim.queue_lengths
            /\ sim'.timesteps_recorded = sim.timesteps_recorded
    ]_vars

(* a run whose last tick recorded fewer patrons than the tick before it,
   a patron having left the park, and that recorded a queue in some tick *)
C17_Witness ==
    /\ loop.pc = "idle"
    /\ sim.current_timestep >= 2
    /\ Len(sim.patron_counts) = sim.current_timestep
    /\ sim.patron_counts[sim.current_timestep] <
           sim.patron_counts[sim.current_timestep - 1]
    /\ \E k \in DOMAIN sim.queue_lengths : sim.queue_lengths[k] >= 1

(* C21: in a park without rides a call of step_change on a Roaming patron
   leaves the patron Roaming and without a target, in no queue and on no
   ride, moves it to no position that is_valid_position refused, and changes
   nothing of the patron but its immobile timer *)
C21_RoamingInEmptyPark ==
    [][\A p \in DOMAIN patrons :
          (/\ rides = <<>>
           /\ patrons[p].state = ROAMING
           /\ CallPatronStep(p)) =>
              /\ patrons'[p].state = ROAMING
              /\ patrons'[p].current_target = None
              /\ patrons'[p].target_ride = None
              /\ obs'.moved_to # "invalid"
              /\ rides' = <<>>
              /\ park_patrons' = park_patrons
              /\ patrons' = patrons \/
                     patrons' = [patrons EXCEPT ![p].immobile_timer = @ - 1]
    ]_vars

(* a Roaming patron, free to move, that a step_change call has just moved in
   a park without rides *)
C21_Witness ==
    /\ rides = <<>>
    /\ \E p \in DOMAIN patrons :
          /\ patrons[p].state = ROAMING
          /\ patrons[p].immobile_timer = 0
          /\ patrons[p].current_target = None
          /\ obs.call = [method |-> "step_change", patron |-> p]
          /\ obs.moved_to = "valid"

(* the list without patron p, the others in their order *)
Without(list, p) ==
    LET Other(q) == q # p
    IN  SelectSeq(list, Other)

(* C22: a call of remove_patron takes the patron out of park.patrons when it
   is there, the other patrons keeping their order, and changes nothing
   when it is not; it changes nothing else, and a second call straight
   after it would change nothing *)
C22_RemovePatron ==
    [][\A p \in DOMAIN patrons :
          CallRemovePatron(p) =>
              /\ park_patrons' = Without(park_patrons, p)
              /\ p \notin Range(park_patrons) => park_patrons' = park_patrons
              /\ p \in Range(park_patrons) =>
                     Len(park_patrons') = Len(park_patrons) - 1
              /\ patrons' = patrons
              /\ rides' = rides
              /\ park_exits' = park_exits
              /\ LET once == remove_patron(Heap, p)
                 IN  /\ once.park_patrons = park_patrons'
                     /\ remove_patron(once, p) = once
    ]_vars

(* a remove_patron call just made on a patron that had already left
   park.patrons, another patron still being in the park *)
C22_Witness ==
    /\ obs.call.method = "remove_patron"
    /\ obs.removed.patron = obs.call.patron
    /\ ~obs.removed.present
    /\ obs.call.patron \notin Range(park_patrons)
    /\ park_patrons # <<>>

(* the step is between two calls of Simulation.step, or after the last *)
BetweenSteps == loop.pc \in {"idle", "done"}

(* C23: the spawn of a step constructs at most one patron, appends it to
   park.patrons and gives it the id next_patron_id, which then grows by one,
   and no other part of a step constructs a patron or touches the counters;
   so the patrons carry the ids 1, 2, 3, ... in the order of their spawning,
   total_patrons_spawned is next_patron_id - 1, and between steps it is at
   most current_timestep *)
C23_SpawnIds ==
    /\ [][IF IsSpawnPhase /\ obs'.spawned # None
           THEN /\ Len(patrons') = Len(patrons) + 1
                /\ obs'.spawned = Len(patrons')
                /\ SubSeq(patrons', 1, Len(patrons)) = patrons
                /\ patrons'[Len(patrons')].id = sim.next_patron_id
                /\ \A p \in DOMAIN patrons :
                       patrons[p].id < patrons'[Len(patrons')].id
                /\ park_patrons' = Append(park_patrons, Len(patrons'))
                /\ sim'.next_patron_id = sim.next_patron_id + 1
                /\ sim'.total_patrons_spawned = sim.total_patrons_spawned + 1
           ELSE /\ Len(patrons') = Len(patrons)
                /\ sim.constructed =>
                       /\ sim'.next_patron_id = sim.next_patron_id
                       /\ sim'.total_patrons_spawned = sim.total_patrons_spawned
       ]_vars
    /\ [](/\ \A p \in DOMAIN patrons : patrons[p].id = p
          /\ sim.total_patrons_spawned = sim.next_patron_id - 1
          /\ sim.total_patrons_spawned = Len(patrons)
          /\ BetweenSteps => sim.total_patrons_spawned <= sim.current_timestep)

(* a run in which each of the first two steps spawned a patron *)
C23_Witness ==
    /\ loop.pc = "idle"
    /\ sim.current_timestep = 2
    /\ sim.total_patrons_spawned = 2
    /\ sim.next_patron_id = 3
    /\ park_patrons = <<1, 2>>
    /\ patrons[1].id = 1 /\ patrons[2].id = 2

(* the point lies outside [12, width - 12] x [12, height - 12] *)
OutsideMargin(x, y) ==
    \/ x \notin PositionMargin..(DEFAULT_PARK_WIDTH - PositionMargin)
    \/ y \notin PositionMargin..(DEFAULT_PARK_HEIGHT - PositionMargin)

(* the point is no farther from the centre (cx2, cy2, doubled) of a box than
   half the box's width and height plus reach, along both axes *)
InsideBox(x, y, cx2, cy2, width, height, reach) ==
    /\ Dist(2 * x, cx2) <= width + 2 * reach
    /\ Dist(2 * y, cy2) <= height + 2 * reach

(* the step is a call of is_valid_position, the only writer of obs.valid *)
IsValidPositionCall == obs'.valid # obs.valid

(* C24: is_valid_position(x, y) returns False exactly when the point lies
   outside the margin of the park, or inside a terrain object that is not a
   pathway, its edge included, or inside the box of a ride widened by 2 on
   every side, whatever the state of the ride; it changes nothing *)
C24_ValidPosition ==
    [][IsValidPositionCall =>
          /\ obs'.valid.returned =
                 ~(\/ OutsideMargin(obs'.valid.x, obs'.valid.y)
                   \/ \E k \in DOMAIN terrain_objects :
                         /\ terrain_objects[k].type # "pathway"
                         /\ InsideBox(obs'.valid.x, obs'.valid.y,
                                      terrain_objects[k].x2, terrain_objects[k].y2,
                                      terrain_objects[k].width,
                                      terrain_objects[k].height, 0)
                   \/ \E r \in DOMAIN rides :
                         InsideBox(obs'.valid.x, obs'.valid.y,
                                   2 * rides[r].x, 2 * rides[r].y,
                                   rides[r].width, rides[r].height, PositionBuffer))
          /\ rides' = rides /\ patrons' = patrons /\ park_patrons' = park_patrons
          /\ terrain_objects' = terrain_objects
    ]_vars

(* a point on the edge of the pathway and outside the obstacle, found valid,
   in a park that holds both and a ride that is Running *)
C24_Witness ==
    /\ obs.valid = [called |-> TRUE, x |-> 87, y |-> 105, returned |-> TRUE]
    /\ Len(terrain_objects) = Len(setup_park) + 2
    /\ \E r \in DOMAIN rides : rides[r].state = RUNNING

(* C25: a call of step_change on a patron whose immobile timer is above 0
   takes 1 off the timer and changes nothing else: not the patron's state,
   position or targets, no queue, no rider list and not park.patrons,
   whatever state the patron is in *)
C25_ImmobilityGate ==
    [][\A p \in DOMAIN patrons :
          (patrons[p].immobile_timer > 0 /\ CallPatronStep(p)) =>
              /\ patrons' = [patrons EXCEPT ![p].immobile_timer = @ - 1]
              /\ rides' = rides
              /\ park_patrons' = park_patrons
              /\ ~obs'.exit_moved
              /\ obs'.moved_to = "nowhere"
    ]_vars

(* a patron just stepped while on board a ride, its timer still running,
   next to a patron that is Exiting with its timer still running *)
C25_Witness ==
    \E p \in DOMAIN patrons, q \in DOMAIN patrons :
        /\ obs.call = [method |-> "step_change", patron |-> p]
        /\ patrons[p].state = RIDING
        /\ patrons[p].immobile_timer \in 1..(DEFAULT_PATRON_IMMOBILE_TIME - 1)
        /\ patrons[q].state = EXITING
        /\ patrons[q].immobile_timer \in 1..(DEFAULT_PATRON_IMMOBILE_TIME - 1)

(* C26: a patron becomes Exiting only in a step_change call made on it while
   it is Roaming with rides_completed >= desired_rides, and that call clears
   current_target and does nothing else: no move, no queue joined; hence no
   Exiting patron has completed fewer rides than it desires *)
C26_ExitTransition ==
    /\ [][\A p \in DOMAIN patrons :
             (patrons[p].state # EXITING /\ patrons'[p].state = EXITING) =>
                 /\ patrons[p].state = ROAMING
                 /\ patrons[p].rides_completed >= patrons[p].desired_rides
                 /\ loop.pc = "patrons" /\ loop.snapshot[loop.i] = p
                 /\ patrons' = [patrons EXCEPT ![p].state = EXITING,
                                               ![p].current_target = None]
                 /\ rides' = rides
                 /\ park_patrons' = park_patrons
                 /\ ~obs'.exit_moved
       ]_vars
    /\ [](\A p \in DOMAIN patrons :
             /\ patrons[p].state = EXITING =>
                    patrons[p].rides_completed >= patrons[p].desired_rides
             /\ \A h \in Patron_step_change(Heap, p) :
                    (patrons[p].state # EXITING /\ h.patrons[p].state = EXITING) =>
                        /\ h.moved_to = "nowhere"
                        /\ ~h.exit_moved
                        /\ h.patrons[p].current_target = None
                        /\ h.rides = rides)

(* the patron loop has just turned a patron Exiting: had the patron been
   Exiting before its step, the step would have moved it or removed it *)
C26_Witness ==
    /\ loop.pc = "patrons"
    /\ obs.stepped # <<>>
    /\ LET p == obs.stepped[Len(obs.stepped)]
       IN  /\ patrons[p].state = EXITING
           /\ patrons[p].rides_completed >= patrons[p].desired_rides
           /\ patrons[p].current_target = None
           /\ p \in Range(park_patrons)
           /\ ~obs.exit_moved

(* the index of patron p in a list that holds it, counted from 0 *)
IndexOf(list, p) == FirstIndex(list, p) - 1

(* C27: a patron that leaves a queue without boarding had an index in that
   queue above its patience; the queue loses that patron and keeps the
   others in their order, the patron is Roaming with current_target cleared,
   and nothing else changes; a patience check at an index within the
   patience changes nothing *)
C27_Abandon ==
    [][\A r \in DOMAIN rides, p \in DOMAIN patrons :
          /\ (/\ p \in Range(rides[r].queue)
              /\ p \notin Range(rides'[r].queue)
              /\ p \notin Range(rides'[r].riders)) =>
                 /\ IndexOf(rides[r].queue, p) > patrons[p].patience
                 /\ obs'.call = [method |-> "check_queue_patience", patron |-> p]
                 /\ rides' = [rides EXCEPT ![r].queue = Without(@, p)]
                 /\ patrons' = [patrons EXCEPT ![p].state = ROAMING,
                                               ![p].current_target = None]
                 /\ park_patrons' = park_patrons
          /\ (/\ p \in Range(rides[r].queue)
              /\ IndexOf(rides[r].queue, p) <= patrons[p].patience
              /\ CallCheckQueuePatience(p)) =>
                 /\ rides' = rides
                 /\ patrons' = patrons
    ]_vars

(* a patron that joined the ride and gave up: never on board, Roaming again
   with the ride still its target_ride, its patience check the last call,
   and the four patrons that were ahead of it still in the queue *)
C27_Witness ==
    \E r \in DOMAIN rides, p \in DOMAIN patrons :
        /\ obs.call = [method |-> "check_queue_patience", patron |-> p]
        /\ patrons[p].state = ROAMING
        /\ patrons[p].target_ride = r
        /\ patrons[p].current_target = None
        /\ patrons[p].visited_rides = {}
        /\ p \notin Range(rides[r].queue) \cup Range(rides[r].riders)
        /\ rides[r].popularity_score = 5
        /\ Len(rides[r].queue) = 4
        /\ rides[r].riders = <<>>

(* the step is a call of add_to_queue on ride r and patron p *)
IsJoin(r, p) ==
    /\ rides'[r].popularity_score = rides[r].popularity_score + 1
    /\ p \notin Range(rides[r].queue)
    /\ p \in Range(rides'[r].queue)

(* C28: add_to_queue puts the patron at the tail of the queue, Queuing and
   with the ride as its target_ride; no step changes the order of two
   patrons that stay in a queue; and a patron that boards takes with it, and
   before it on board, every patron that was ahead of it in the queue *)
C28_Fifo ==
    [][\A r \in DOMAIN rides, a \in DOMAIN patrons :
          /\ IsJoin(r, a) =>
                 /\ rides'[r].queue = Append(rides[r].queue, a)
                 /\ patrons'[a].state = QUEUING
                 /\ patrons'[a].target_ride = r
          /\ \A b \in DOMAIN patrons :
                 (/\ a \in Range(rides[r].queue) /\ b \in Range(rides[r].queue)
                  /\ IndexOf(rides[r].queue, a) < IndexOf(rides[r].queue, b)) =>
                     /\ (a \in Range(rides'[r].queue) /\ b \in Range(rides'[r].queue)) =>
                            IndexOf(rides'[r].queue, a) < IndexOf(rides'[r].queue, b)
                     /\ b \in Range(rides'[r].riders) =>
                            /\ a \in Range(rides'[r].riders)
                            /\ IndexOf(rides'[r].riders, a) < IndexOf(rides'[r].riders, b)
    ]_vars

(* two patrons on board in the order they had joined, not that of their
   ids, after the patron at the end of the queue had given up; behind them
   the queue in its order of arrival *)
C28_Witness ==
    \E r \in DOMAIN rides :
        /\ rides[r].riders = <<2, 1>>
        /\ rides[r].queue = <<5, 3>>
        /\ rides[r].popularity_score = 5
        /\ patrons[4].state = ROAMING
        /\ patrons[4].target_ride = r

(* C29: the step_change call that finds a ride Idle with a queue makes it
   Loading with timer = loading_time and boards nobody; each call that finds
   it Loading boards, from the front of the queue, as many patrons as there
   are free places, patrons that joined since the last call included, and
   the ride leaves Loading in the loading_time-th of these calls, not
   before, full or not *)
C29_LoadingLasts ==
    [][IsRideTurn =>
          LET r == loop.j
              boarding == Min(Max(0, rides[r].capacity - Len(rides[r].riders)),
                              Len(rides[r].queue))
          IN  /\ (rides[r].state = IDLE /\ rides[r].queue # <<>>) =>
                     /\ rides'[r].state = LOADING
                     /\ rides'[r].timer = rides[r].loading_time
                     /\ rides'[r].riders = rides[r].riders
                     /\ rides'[r].queue = rides[r].queue
              /\ rides[r].state = LOADING =>
                     /\ obs.calls[r] \in 1..rides[r].loading_time
                     /\ rides'[r].state # LOADING <=>
                            obs.calls[r] = rides[r].loading_time
                     /\ rides'[r].riders =
                            rides[r].riders \o SubSeq(rides[r].queue, 1, boarding)
                     /\ rides'[r].queue =
                            SubSeq(rides[r].queue, boarding + 1, Len(rides[r].queue))
    ]_vars

(* a ride after its second Loading call, still Loading although full, the
   last place taken by a patron that joined the queue in this tick, when
   the ride was Loading already *)
C29_Witness ==
    \E r \in DOMAIN rides, p \in DOMAIN patrons :
        /\ loop.pc = "rides" /\ loop.j > r
        /\ rides[r].state = LOADING
        /\ obs.calls[r] = 3
        /\ rides[r].capacity = 2
        /\ Len(rides[r].riders) = 2
        /\ rides[r].riders[2] = p
        /\ p \in obs.joined

(* the rides as a call of step_change on ride r alone can leave them *)
PlainRideStep(r) == {h.rides : h \in RideStepOutcomes(Heap, r)}

(* the Simulation was constructed for a time of day whose ride speed is
   below 1 *)
SlowProfile == obs.simulation.time_of_day \in {"evening", "night"}

(* C30: the turn of a ride in Simulation.step leaves the rides as the
   ride's step_change alone leaves them, or, for a ride found Running with
   timer > 1 under the evening or the night profile, with 1 more on the
   timer of that ride; under any other time of day, known or not, it leaves
   them as step_change alone does; the timer of a ride that stays Running
   does not grow in its turn; and no other part of a step writes a timer or
   a ride's state *)
C30_TimeOfDay ==
    [][IF IsRideTurn
       THEN LET r == loop.j
            IN  /\ \/ rides' \in PlainRideStep(r)
                   \/ /\ SlowProfile
                      /\ rides[r].state = RUNNING /\ rides[r].timer > 1
                      /\ \E plain \in PlainRideStep(r) :
                            rides' = [plain EXCEPT ![r].timer = @ + 1]
                /\ \E plain \in PlainRideStep(r) :
                       /\ rides'[r].state = plain[r].state
                       /\ rides'[r].queue = plain[r].queue
                       /\ rides'[r].riders = plain[r].riders
                /\ (rides[r].state = RUNNING /\ rides'[r].state = RUNNING) =>
                       rides'[r].timer <= rides[r].timer
                /\ sim.ride_speed_multiplier < 1000 <=> SlowProfile
       ELSE \A r \in DOMAIN rides :
                /\ rides'[r].timer = rides[r].timer
                /\ rides'[r].state = rides[r].state
    ]_vars

(* a ride at night that has had a Running call and still has its whole
   duration on the timer *)
C30_Witness ==
    \E r \in DOMAIN rides :
        /\ obs.simulation.time_of_day = "night"
        /\ rides[r].state = RUNNING
        /\ obs.calls[r] = CallsToRunning(r) + 1
        /\ rides[r].timer = rides[r].duration


(* The two rides of the park updated in the order of the list, and in the
   opposite order *)
InListOrder ==
    UNION {RideTurn(h, 2, sim.ride_speed_multiplier) :
              h \in RideTurn(Heap, 1, sim.ride_speed_multiplier)}

InOppositeOrder ==
    UNION {RideTurn(h, 1, sim.ride_speed_multiplier) :
              h \in RideTurn(Heap, 2, sim.ride_speed_multiplier)}

(* C31: within a tick the ride updates commute: at the start of the ride
   loop, updating the rides in either order gives the same ride states,
   queues, rider lists, counters and patron states *)
C31_RideUpdatesCommute ==
    (loop.pc = "rides" /\ loop.j = 1 /\ Len(rides) = 2)
        => InListOrder = InOppositeOrder

C31_Witness ==
    /\ loop.pc = "rides" /\ loop.j = 1 /\ Len(rides) = 2
    /\ rides[1].state = LOADING /\ rides[1].capacity > 0
    /\ Len(rides[1].queue) > 0
    /\ rides[2].state = IDLE /\ Len(rides[2].queue) > 0

(* how many times patron p stands in the queues, and in the rider lists, of
   all the rides *)
InQueues(p) ==
    LET sum[k \in 0..Len(rides)] ==
            IF k = 0 THEN 0 ELSE sum[k - 1] + Occurrences(rides[k].queue, p)
    IN  sum[Len(rides)]

InRiders(p) ==
    LET sum[k \in 0..Len(rides)] ==
            IF k = 0 THEN 0 ELSE sum[k - 1] + Occurrences(rides[k].riders, p)
    IN  sum[Len(rides)]

(* C32: after every Simulation.step a patron is Queuing exactly when it
   stands in exactly one queue, Riding exactly when it stands in exactly
   one rider list, Roaming or Exiting exactly when it stands in neither, and
   every patron of a queue or rider list is in the park's active set *)
C32_StateMatchesMembership ==
    (sim.constructed /\ BetweenSteps) =>
        \A p \in DOMAIN patrons :
           /\ patrons[p].state = QUEUING <=> (InQueues(p) = 1 /\ InRiders(p) = 0)
           /\ patrons[p].state = RIDING <=> (InRiders(p) = 1 /\ InQueues(p) = 0)
           /\ patrons[p].state \in {ROAMING, EXITING}
                 <=> (InQueues(p) = 0 /\ InRiders(p) = 0)
           /\ (InQueues(p) + InRiders(p) > 0) => p \in Range(park_patrons)

C32_Witness ==
    /\ sim.constructed /\ BetweenSteps /\ sim.current_timestep > 0
    /\ \E p, q \in DOMAIN patrons :
          /\ patrons[p].state = RIDING /\ InRiders(p) = 1
          /\ patrons[q].state = QUEUING /\ InQueues(q) = 1

(* ------------------------------------------------------------------ *)
(* A long run of the engine on a park that starts with no patrons: the
   patrons it spawns stay long enough to finish their rides and leave.   *)

SetUpSeasonRide ==
    /\ rides = <<>>
    /\ ParkAddRideAt(FixtureRides[1], {MaxCapacity})

OpenSeason == ConstructWith({MaxSeasonTicks}, BaseSpawnRates, {"afternoon"})

SeasonSpawn == StepSpawnWithin(MaxSeasonPatrons)

NextSeason ==
    \/ SetUpSeasonRide
    \/ OpenSeason
    \/ SeasonSpawn
    \/ StepPatron
    \/ StepTrackExits
    \/ StepRide
    \/ StepRecord

SpecSeason == Init /\ [][NextSeason]_vars

(* run() is a loop of one thread: a step that can be taken is taken *)
FairSpecSeason == SpecSeason /\ WF_vars(NextSeason)

(* C33: in a run started on a park with no patrons, after every step
   total_patrons_spawned = total_patrons_exited + len(park.patrons), and
   total_patrons_exited never decreases *)
C33_PatronConservation ==
    /\ [][sim'.total_patrons_exited >= sim.total_patrons_exited]_vars
    /\ []((sim.constructed /\ BetweenSteps) =>
             sim.total_patrons_spawned
                 = sim.total_patrons_exited + Len(park_patrons))

C33_Witness ==
    /\ sim.constructed /\ BetweenSteps
    /\ sim.total_patrons_spawned = 1
    /\ sim.total_patrons_exited = 1
    /\ park_patrons = <<>>
    /\ sim.current_timestep = sim.max_timesteps

(* C34: Exiting is absorbing: an Exiting patron stays Exiting and is never
   added to a queue; and a patron leaves the active set only while Exiting,
   in its own step_change, at a distance below 2 from its nearest exit (no
   move left to make), without being moved by that call *)
C34_ExitingAbsorbs ==
    [][\A p \in DOMAIN patrons :
          /\ patrons[p].state = EXITING =>
                 /\ patrons'[p].state = EXITING
                 /\ \A r \in DOMAIN rides' :
                        /\ p \notin Range(rides'[r].queue)
                        /\ p \notin Range(rides'[r].riders)
          /\ (p \in Range(park_patrons) /\ p \notin Range(park_patrons')) =>
                 /\ patrons[p].state = EXITING
                 /\ 0 \in ExitDistance(Heap, p)
                 /\ park_exits > 0
                 /\ loop.pc = "patrons" /\ loop.snapshot[loop.i] = p
                 /\ park_patrons' = Without(park_patrons, p)
                 /\ ~obs'.exit_moved
      ]_vars

(* a patron that walked to the exit, its distance measured, and was let out *)
C34_Witness ==
    \E p \in DOMAIN patrons :
       /\ patrons[p].state = EXITING
       /\ patrons[p].to_exit = 0
       /\ p \notin Range(park_patrons)

Underway == {RUNNING, UNLOADING}

(* C35: a Running or Unloading ride holds at least one rider and at most
   capacity riders, and its rider list stays as it is from the step that
   made it Running until the unload, whoever joins its queue meanwhile *)
C35_NoMidRideBoarding ==
    /\ [](\A r \in DOMAIN rides :
             rides[r].state \in Underway =>
                 /\ Len(rides[r].riders) >= 1
                 /\ Len(rides[r].riders) <= rides[r].capacity)
    /\ [][\A r \in DOMAIN rides :
             (rides[r].state \in Underway /\ rides'[r].state \in Underway) =>
                 rides'[r].riders = rides[r].riders
       ]_vars

(* a ride that runs with a seat free while a patron waits in its queue *)
C35_Witness ==
    \E r \in DOMAIN rides :
       /\ rides[r].state = RUNNING
       /\ Len(rides[r].riders) < rides[r].capacity
       /\ Len(rides[r].queue) > 0
       /\ loop.pc = "idle"

(* the least patience a personality can draw *)
LeastPatience == 3

(* C36: every patron has patience >= 3, so a patron at queue index 0..3
   never abandons; hence in engine runs a ride of capacity >= 1 that is
   Loading stays Loading or proceeds to Running, never to Idle *)
C36_LoadingReachesRunning ==
    /\ [](\A p \in DOMAIN patrons :
             /\ patrons[p].patience >= LeastPatience
             /\ \A r \in DOMAIN rides :
                    (p \in Range(rides[r].queue)
                        /\ IndexOf(rides[r].queue, p) <= LeastPatience)
                    => check_queue_patience(Heap, p) = {Heap})
    /\ [][\A r \in DOMAIN rides :
             (rides[r].capacity >= 1 /\ rides[r].state = LOADING) =>
                 rides'[r].state \in {LOADING, RUNNING}
       ]_vars

(* a ride of capacity >= 1 that went through Loading and runs, a patron of
   the least patience aboard *)
C36_Witness ==
    \E r \in DOMAIN rides :
       /\ rides[r].capacity >= 1
       /\ rides[r].state = RUNNING
       /\ \E k \in DOMAIN rides[r].riders :
              patrons[rides[r].riders[k]].patience = LeastPatience

(* ------------------------------------------------------------------ *)
(* Patrons of every personality roaming in front of one ride that never
   runs: intelligent_roam called on them directly, so that the queue grows
   up to what each personality accepts.                                  *)

AddJoiner == AddPatronWith(MaxJoinPatrons, Personalities)

(* patron.intelligent_roam(park), the patron within distance 15 of its
   target (close) or not *)
CallRoam(p) ==
    /\ patrons[p].state = ROAMING
    /\ \E close \in BOOLEAN :
          \E h \in RoamAt(Heap, p, close) :
             /\ Install(h)
             /\ obs' = [obs EXCEPT
                           !.call = [method |-> "intelligent_roam", patron |-> p],
                           !.close = close,
                           !.moved_to = h.moved_to]
    /\ UNCHANGED <<sim, loop>>

NextJoin ==
    \/ SetUpRide
    \/ AddJoiner
    \/ \E p \in DOMAIN patrons : CallRoam(p)

SpecJoin == Init /\ [][NextJoin]_vars

(* twice the factor k of max_acceptable_queue = k * capacity *)
TwiceTolerance(personality) ==
    CASE personality = "thrill_seeker" -> 6
      [] personality = "casual" -> 3
      [] OTHER -> 4

(* C37: a Roaming patron joins the queue of its current target only when the
   queue is strictly shorter than k * capacity (k = 3 thrill_seeker, 1.5
   casual, 2 otherwise) and the patron is within distance 15 of the ride,
   so a ride of capacity <= 0 is never joined; spawn_patron makes balanced
   patrons only, and where all patrons are balanced no queue is longer than
   2 * capacity *)
C37_JoinGuard ==
    /\ [][\A p \in DOMAIN patrons :
             (patrons[p].state = ROAMING /\ patrons'[p].state = QUEUING) =>
                 LET t == patrons'[p].current_target
                 IN  /\ t \in DOMAIN rides
                     /\ rides'[t].queue = Append(rides[t].queue, p)
                     /\ 2 * Len(rides[t].queue)
                            < TwiceTolerance(patrons[p].personality)
                                  * rides[t].capacity
                     /\ obs'.close
       ]_vars
    /\ [](\A r \in DOMAIN rides :
             /\ rides[r].capacity <= 0 => rides[r].queue = <<>>
             /\ (\A p \in DOMAIN patrons : patrons[p].personality = "balanced")
                    => Len(rides[r].queue) <= 2 * rides[r].capacity)
    /\ [](\A h \in spawn_patron(Heap, Len(patrons) + 1) :
             h.patrons[Len(h.patrons)].personality = "balanced")

(* a casual patron that roamed close to a ride of capacity 2 with three
   patrons in its queue and did not join, next to a thrill seeker in it *)
C37_Witness ==
    \E r \in DOMAIN rides, p \in DOMAIN patrons :
       /\ rides[r].capacity = 2
       /\ Len(rides[r].queue) = 3
       /\ patrons[p].personality = "casual"
       /\ patrons[p].state = ROAMING
       /\ patrons[p].current_target = r
       /\ obs.call = [method |-> "intelligent_roam", patron |-> p]
       /\ obs.close

(* the sum of total_riders_served over the rides *)
RidersServed ==
    LET sum[k \in 0..Len(rides)] ==
            IF k = 0 THEN 0 ELSE sum[k - 1] + rides[k].total_riders_served
    IN  sum[Len(rides)]

(* C38: in engine runs from fresh rides and patrons, each ride's
   total_riders_served is the number of completed rides its riders recorded,
   the rides_completed of all patrons add up to the total_riders_served of
   all rides, total_riders_served <= capacity * total_cycles, and a ride has
   completed total_cycles or total_cycles - 1 unloads *)
C38_ServedAccounting ==
    /\ RidesCompleted(Heap) = RidersServed
    /\ \A r \in DOMAIN rides :
          /\ rides[r].total_riders_served = obs.completions[r]
          /\ rides[r].total_riders_served
                 <= rides[r].capacity * rides[r].total_cycles
          /\ rides[r].total_cycles - 1 <= obs.unloads[r]
          /\ obs.unloads[r] <= rides[r].total_cycles

(* a ride of capacity 2 that took two patrons round and set them down *)
C38_Witness ==
    \E r \in DOMAIN rides :
       /\ rides[r].capacity = 2
       /\ rides[r].total_cycles = 1
       /\ obs.unloads[r] = 1
       /\ rides[r].total_riders_served = 2
       /\ Len(patrons) = 2

(* the step_change calls the run has still to make on active patron p: one
   in each tick to come, and the one of this tick while it is pending *)
CallsLeft(p) ==
    IF loop.pc = "idle"
    THEN sim.max_timesteps - sim.current_timestep
    ELSE (sim.max_timesteps - sim.current_timestep - 1)
         + (IF /\ loop.pc = "patrons"
               /\ \E k \in loop.i .. Len(loop.snapshot) : loop.snapshot[k] = p
            THEN 1 ELSE 0)

(* the moves that separate patron p from its exit, at most *)
MovesLeft(h, p) ==
    IF h.patrons[p].to_exit = Unmeasured THEN MaxExitMoves ELSE h.patrons[p].to_exit

IsExiting(p) ==
    /\ p \in DOMAIN patrons
    /\ p \in Range(park_patrons)
    /\ patrons[p].state = EXITING

(* C39: in a park with an exit every patron that turns Exiting is removed
   from the active set after finitely many ticks (as many as its distance
   takes, the run lasting that long): an Exiting patron has immobile_timer
   = 0, and each step_change made on it either removes it, its distance
   being below 2, or moves it one move closer to its nearest exit without
   asking is_valid_position *)
C39_ExitingLeaves ==
    /\ [](\A p \in DOMAIN patrons :
             IsExiting(p) =>
                 /\ patrons[p].immobile_timer = 0
                 /\ park_exits > 0
                 /\ \A h \in Patron_step_change(Heap, p) :
                        /\ h.moved_to = "nowhere"
                        /\ \/ /\ 0 \in ExitDistance(Heap, p)
                              /\ p \notin Range(h.park_patrons)
                           \/ /\ h.exit_moved
                              /\ p \in Range(h.park_patrons)
                              /\ MovesLeft(h, p) < MovesLeft(Heap, p))
    /\ \A p \in 1..MaxSeasonPatrons :
          (IsExiting(p) /\ CallsLeft(p) > MovesLeft(Heap, p))
              ~> (p \notin Range(park_patrons))

(* late in the run, a patron that turned Exiting, walked to the exit and
   was let out *)
C39_Witness ==
    \E p \in DOMAIN patrons :
       /\ patrons[p].state = EXITING
       /\ patrons[p].to_exit = 0
       /\ p \notin Range(park_patrons)
       /\ sim.total_patrons_exited = 1
       /\ sim.current_timestep >= MaxSeasonTicks - 1
       /\ loop.pc = "idle"

(* ------------------------------------------------------------------ *)
(* Engine runs that spawn nobody, on a park with one ride and up to two
   balanced patrons who are there from the start: they queue, ride and
   queue again while the ride goes through its cycles, by day and by
   night.                                                               *)

OpenService == ConstructWith({MaxServiceTicks}, NoSpawnRates, TimesOfDay)

NextService ==
    \/ SetUpRide
    \/ AddBalanced
    \/ OpenService
    \/ StepSpawn
    \/ StepPatron
    \/ StepTrackExits
    \/ StepRide
    \/ StepRecord

SpecService == Init /\ [][NextService]_vars

(* run() is a loop of one thread: a step that can be taken is taken *)
FairSpecService == SpecService /\ WF_vars(NextService)

(* the ticks of the run that come after the current one *)
TicksLeft ==
    sim.max_timesteps - sim.current_timestep - (IF loop.pc = "idle" THEN 0 ELSE 1)

(* the ride whose queue holds patron p *)
IsQueued(p) ==
    /\ p \in DOMAIN patrons
    /\ patrons[p].state = QUEUING
    /\ QueueOf(Heap, p) # None

(* ticks within which the ride that patron p queues for takes it aboard,
   when no timer is inflated: a whole cycle for every full load ahead of
   it, and one more for a ride that has just filled up, which finishes
   loading, runs, unloads, starts loading again and boards *)
WaitBound(p) ==
    LET r == QueueOf(Heap, p)
    IN  CallsToIdle(r) * ((IndexOf(rides[r].queue, p) \div rides[r].capacity) + 1)

(* loading_time + duration + unload_time of the ride that carries p *)
RideBound(p) ==
    LET r == CHOOSE r \in DOMAIN rides : p \in Range(rides[r].riders)
    IN  rides[r].loading_time + rides[r].duration + rides[r].unload_time

IsRiding(p) ==
    /\ p \in DOMAIN patrons
    /\ patrons[p].state = RIDING
    /\ \E r \in DOMAIN rides : p \in Range(rides[r].riders)

(* C40: with no timer inflation (a time of day other than evening and
   night) a patron in the queue of a ride of capacity >= 1 boards or
   abandons, and a Riding patron is Roaming again within loading_time +
   duration + unload_time ticks, the run lasting that long; under the
   evening and night profiles a Running ride with timer > 1 can be held
   where it is by the inflation roll in any tick, and can also advance, so
   that service then depends on the rolls *)
C40_Service ==
    /\ [](\A r \in DOMAIN rides :
             /\ (sim.constructed /\ ~SlowProfile /\ rides[r].riders # <<>>)
                    => obs.calls[r] < CallsToIdle(r)
             /\ (sim.constructed /\ SlowProfile
                    /\ rides[r].state = RUNNING /\ rides[r].timer > 1)
                    => \E held, advanced \in RideTurn(Heap, r, sim.ride_speed_multiplier) :
                          /\ held.rides[r].state = RUNNING
                          /\ held.rides[r].timer = rides[r].timer
                          /\ advanced.rides[r].timer = rides[r].timer - 1)
    /\ \A p \in 1..MaxPatrons :
          (/\ IsQueued(p) /\ ~SlowProfile
           /\ rides[QueueOf(Heap, p)].capacity >= 1
           /\ TicksLeft >= WaitBound(p))
              ~> ~IsQueued(p)
    /\ \A p \in 1..MaxPatrons :
          (IsRiding(p) /\ ~SlowProfile /\ TicksLeft >= RideBound(p))
              ~> (p \in DOMAIN patrons /\ patrons[p].state = ROAMING)

(* at night, riders still aboard when a cycle without inflation would have
   set them down *)
C40_Witness ==
    \E r \in DOMAIN rides :
       /\ SlowProfile
       /\ rides[r].riders # <<>>
       /\ obs.calls[r] > CallsToIdle(r)
====
